---- MODULE Spec2Model ----
(***************************************************************************)
(* Baseline verification and vote aggregation of eve-transparent-fund.     *)
(*                                                                         *)
(* The model follows baseline.ts (session store, vote ledger),             *)
(* baseline-questions.ts (question bank, answer scorer), persistence.ts    *)
(* (the two JSON snapshots), auth-middleware.ts (token registry), the API  *)
(* server (the three POST routes), allocator.ts (allocation engine), and   *)
(* chain-verifier.ts, fund-tracker.ts, wallet.ts and TransparentFund       *)
(* (donations and allocations of the fund).                                *)
(*                                                                         *)
(* Numbers.  JavaScript numbers are modelled as exact rationals held in    *)
(* integers:                                                               *)
(*   - the score of one answer is held in twelfths of a point (the         *)
(*     keyword lists of the catalog have 2, 3 or 4 entries, so             *)
(*     found/length*5 is a multiple of 1/12);                              *)
(*   - a category mean and the unrounded total are held in 72nds of a      *)
(*     point (a category has 1, 2 or 3 answers);                           *)
(*   - every number the code rounds with Math.round(x * 10) / 10 is held   *)
(*     in tenths.                                                          *)
(* The code computes in IEEE doubles; the model does not follow a double's *)
(* last bit, which matters only where an exact value lies on a comparison  *)
(* or rounding boundary.                                                   *)
(* Date values (startTime, timestamp) are not modelled.                    *)
(*                                                                         *)
(* An answer text is modelled by what the scorer reads from it: its        *)
(* length and the set of lower-case catalog keywords and coercion phrases  *)
(* that occur in its lower-cased form.                                     *)
(*                                                                         *)
(* A session id is `baseline_<Date.now()>_<random>`; the model takes the   *)
(* generated id to be one that the store does not hold yet, except in      *)
(* SpecIds, which draws the clock value and the random suffix.             *)
(***************************************************************************)
EXTENDS Integers, Sequences, FiniteSets, TLC

VARIABLES
    sessions,       \* Map<string, BaselineSession>: function on the ids stored
    votes,          \* Map<string, VerifiedVote[]>: entries in insertion order
    savedSessions,  \* content of sessions.json
    savedVotes,     \* content of votes.json
    tokenRegistry,  \* Map<string, string>: token -> agentId
    ret,            \* what the last call of the core API returned or threw
    response,       \* status and body of the last HTTP response
    call            \* a call of a pure function: its name, arguments and result

vars == <<sessions, votes, savedSessions, savedVotes, tokenRegistry, ret, response,
          call>>

----------------------------------------------------------------------------
(* Bounds and input sets *)

\* number of session ids the store can hold at once
MaxSessions == 2

\* number of times the texts submitted to one session change from one text
\* to another (0: an agent answers a whole session in one style)
MaxStyleChanges == 0

SessionIds == 1 .. MaxSessions

AgentIds == {"alice", "bob"}

\* projects arguments of start: none, one, two projects
ProjectLists == { <<>>, <<"P1">>, <<"P1", "P2">> }

\* all lower-case keywords of the catalog
AllKeywords ==
    {"users", "friction", "solution", "program", "transaction", "account",
     "contract", "limitation", "trade-off", "challenge", "because", "better",
     "advantage", "explain", "discuss", "evaluate", "cells"}

\* a text of ordinary length naming every keyword
GoodText == [len |-> 400, has |-> AllKeywords]

\* "no": two characters, no keyword
ShortText == [len |-> 2, has |-> {}]

AnswerTexts == {GoodText, ShortText}

\* a text of ordinary length naming no keyword
PlainText == [len |-> 40, has |-> {}]

\* a text of ordinary length naming some of the keywords
PartialText ==
    [len |-> 120,
     has |-> {"users", "program", "transaction", "limitation", "trade-off",
              "because"}]

\* "explain": seven characters, one keyword
ShortExplain == [len |-> 7, has |-> {"explain"}]

\* the texts of the sessions whose scores are examined
ScoreTexts == {GoodText, PlainText, PartialText, ShortExplain}

\* the empty string, which the answer route refuses
EmptyText == [len |-> 0, has |-> {}]

\* Authorization headers: none, or "Bearer <token>" held as <<token>>
Tokens == {"t1", "t2"}
AuthHeaders == {<<>>} \cup {<<t>> : t \in Tokens}

\* agentId fields of a request body: "" when the field is missing
BodyAgentIds == AgentIds \cup {""}

\* projects fields of a request body: missing or empty, or one project
BodyProjectLists == { <<>>, <<"P1">> }

\* votes fields of a request body: <<>> when the field is missing
BodyVotes == { <<>>, << <<>> >>, << << <<"P1", 1>> >> >> }

\* the longest projects list handed to generateQuestions on its own
MaxProjects == 4

ProjectNames == {"P1", "P2", "P3"}

\* every list of at most MaxProjects project names, the empty one included
QuestionInputs ==
    UNION { [1 .. n -> ProjectNames] : n \in 0 .. MaxProjects }

\* answer arguments of evaluateAnswer called on its own: the lengths around
\* the two thresholds, with the keywords and coercion phrases a text of that
\* length can hold
EvalTexts ==
    {EmptyText}
    \cup {[len |-> 9, has |-> h] : h \in {{}, {"trade-off"}, {"challenge"}}}
    \cup {[len |-> 10, has |-> h] : h \in {{}, {"limitation"}, {"i was told"}}}
    \cup {[len |-> n, has |-> h] :
             n \in {400, 1000, 1001},
             h \in {{}, AllKeywords, PartialText.has, {"cells"}, {"i was told"},
                    AllKeywords \cup {"instructed to"}}}

\* voteRanking arguments of complete: objects as their entries in key order
Rankings ==
    { <<>>,
      << <<"P1", 1>> >>,
      << <<"P1", 2>>, <<"P2", 1>> >>,
      << <<"P9", 1>> >> }

----------------------------------------------------------------------------
(* Question bank: baseline-questions.ts *)

BASELINE_QUESTIONS ==
    << [id |-> "know_problem", category |-> "knowledge",
        expectedElements |-> <<"users", "friction", "solution">>],
       [id |-> "know_solana", category |-> "knowledge",
        expectedElements |-> <<"program", "transaction", "account", "contract">>],
       [id |-> "reason_weakness", category |-> "reasoning",
        expectedElements |-> <<"limitation", "trade-off", "challenge">>],
       [id |-> "reason_compare", category |-> "reasoning",
        expectedElements |-> <<"because", "better", "advantage">>],
       [id |-> "auto_instruction", category |-> "autonomy",
        expectedElements |-> <<>>],
       [id |-> "auto_conflict", category |-> "autonomy",
        expectedElements |-> <<"explain", "discuss", "evaluate">>],
       [id |-> "anchor_cells", category |-> "autonomy",
        expectedElements |-> <<"cells", "Cells">>] >>

\* Array.prototype.find on the catalog: the first entry with that id
FindQuestion(id) ==
    LET hits == {i \in 1 .. Len(BASELINE_QUESTIONS) : BASELINE_QUESTIONS[i].id = id}
    IN  BASELINE_QUESTIONS[CHOOSE i \in hits : \A j \in hits : i <= j]

\* Array.prototype.filter: the entries of s satisfying Keep, in order
FilterSeq(s, Keep(_)) == SelectSeq(s, Keep)

\* projects[i] of a JavaScript array: undefined past the end
ProjectAt(projects, i) ==
    IF i <= Len(projects) THEN projects[i] ELSE "undefined"

\* template.replace(...): the template with the values substituted
Expand(q, values) == [template |-> q.id, values |-> values]

Concrete(q, values) ==
    [question |-> Expand(q, values), id |-> q.id, category |-> q.category]

RECURSIVE MapConcrete(_, _)
MapConcrete(qs, values) ==
    IF qs = <<>> THEN <<>>
    ELSE <<Concrete(Head(qs), values)>> \o MapConcrete(Tail(qs), values)

\* the closing loop without its test on the anchor's id
generateQuestions_anchorTwice(projects) ==
    LET mainProject == ProjectAt(projects, 1)
        IsKnowledge(q) == q.category = "knowledge"
        IsAutonomy(q) == q.category = "autonomy"
    IN  <<Concrete(FindQuestion("anchor_cells"), <<>>)>>
        \o MapConcrete(FilterSeq(BASELINE_QUESTIONS, IsKnowledge), <<mainProject>>)
        \o <<Concrete(FindQuestion("reason_weakness"), <<mainProject>>)>>
        \o (IF Len(projects) >= 2
            THEN <<Concrete(FindQuestion("reason_compare"),
                            <<projects[1], projects[2]>>)>>
            ELSE <<>>)
        \o MapConcrete(FilterSeq(BASELINE_QUESTIONS, IsAutonomy), <<>>)

generateQuestions(projects) ==
    LET mainProject == ProjectAt(projects, 1)
        IsKnowledge(q) == q.category = "knowledge"
        IsOtherAutonomy(q) == q.category = "autonomy" /\ q.id # "anchor_cells"
    IN  <<Concrete(FindQuestion("anchor_cells"), <<>>)>>
        \o MapConcrete(FilterSeq(BASELINE_QUESTIONS, IsKnowledge), <<mainProject>>)
        \o <<Concrete(FindQuestion("reason_weakness"), <<mainProject>>)>>
        \o (IF Len(projects) >= 2
            THEN <<Concrete(FindQuestion("reason_compare"),
                            <<projects[1], projects[2]>>)>>
            ELSE <<>>)
        \o MapConcrete(FilterSeq(BASELINE_QUESTIONS, IsOtherAutonomy), <<>>)

----------------------------------------------------------------------------
(* Answer scorer: baseline-questions.ts *)

\* String.prototype.toLowerCase on a catalog keyword
ToLowerCase(el) == IF el = "Cells" THEN "cells" ELSE el

Min(a, b) == IF a <= b THEN a ELSE b
Max(a, b) == IF a >= b THEN a ELSE b

\* a text of exactly 10 characters taken for a short one
evaluateAnswer_shortAt10(questionId, answer, expectedElements) ==
    LET lengthFlags == IF answer.len <= 10 THEN <<"TOO_SHORT">>
                       ELSE IF answer.len > 1000 THEN <<"TOO_LONG">>
                       ELSE <<>>
        afterLength == IF answer.len <= 10 THEN 12 * 5 - 12 * 3
                       ELSE IF answer.len > 1000 THEN 12 * 5 - 12 * 1
                       ELSE 12 * 5
        found == {i \in 1 .. Len(expectedElements) :
                      ToLowerCase(expectedElements[i]) \in answer.has}
        afterElements == IF Len(expectedElements) > 0
                         THEN afterLength
                              + (Cardinality(found) * 12 * 5) \div Len(expectedElements)
                         ELSE afterLength
        redFlags == IF "i was told" \in answer.has \/ "instructed to" \in answer.has
                    THEN <<"ADMITS_COERCION">>
                    ELSE <<>>
    IN  [score |-> Max(0, Min(12 * 10, afterElements)),
         flags |-> lengthFlags \o redFlags]

\* three points taken off an answer that admits coercion
evaluateAnswer_coercionPenalty(questionId, answer, expectedElements) ==
    LET lengthFlags == IF answer.len < 10 THEN <<"TOO_SHORT">>
                       ELSE IF answer.len > 1000 THEN <<"TOO_LONG">>
                       ELSE <<>>
        afterLength == IF answer.len < 10 THEN 12 * 5 - 12 * 3
                       ELSE IF answer.len > 1000 THEN 12 * 5 - 12 * 1
                       ELSE 12 * 5
        found == {i \in 1 .. Len(expectedElements) :
                      ToLowerCase(expectedElements[i]) \in answer.has}
        afterElements == IF Len(expectedElements) > 0
                         THEN afterLength
                              + (Cardinality(found) * 12 * 5) \div Len(expectedElements)
                         ELSE afterLength
        coerced == "i was told" \in answer.has \/ "instructed to" \in answer.has
        redFlags == IF coerced THEN <<"ADMITS_COERCION">> ELSE <<>>
        afterFlags == IF coerced THEN afterElements - 12 * 3 ELSE afterElements
    IN  [score |-> Max(0, Min(12 * 10, afterFlags)),
         flags |-> lengthFlags \o redFlags]

\* the five points of the keywords given when no keyword is expected
evaluateAnswer_fullWhenNoneExpected(questionId, answer, expectedElements) ==
    LET lengthFlags == IF answer.len < 10 THEN <<"TOO_SHORT">>
                       ELSE IF answer.len > 1000 THEN <<"TOO_LONG">>
                       ELSE <<>>
        afterLength == IF answer.len < 10 THEN 12 * 5 - 12 * 3
                       ELSE IF answer.len > 1000 THEN 12 * 5 - 12 * 1
                       ELSE 12 * 5
        found == {i \in 1 .. Len(expectedElements) :
                      ToLowerCase(expectedElements[i]) \in answer.has}
        afterElements == IF Len(expectedElements) > 0
                         THEN afterLength
                              + (Cardinality(found) * 12 * 5) \div Len(expectedElements)
                         ELSE afterLength + 12 * 5
        redFlags == IF "i was told" \in answer.has \/ "instructed to" \in answer.has
                    THEN <<"ADMITS_COERCION">>
                    ELSE <<>>
    IN  [score |-> Max(0, Min(12 * 10, afterElements)),
         flags |-> lengthFlags \o redFlags]

\* score in twelfths of a point
evaluateAnswer(questionId, answer, expectedElements) ==
    LET lengthFlags == IF answer.len < 10 THEN <<"TOO_SHORT">>
                       ELSE IF answer.len > 1000 THEN <<"TOO_LONG">>
                       ELSE <<>>
        afterLength == IF answer.len < 10 THEN 12 * 5 - 12 * 3
                       ELSE IF answer.len > 1000 THEN 12 * 5 - 12 * 1
                       ELSE 12 * 5
        found == {i \in 1 .. Len(expectedElements) :
                      ToLowerCase(expectedElements[i]) \in answer.has}
        afterElements == IF Len(expectedElements) > 0
                         THEN afterLength
                              + (Cardinality(found) * 12 * 5) \div Len(expectedElements)
                         ELSE afterLength
        redFlags == IF "i was told" \in answer.has \/ "instructed to" \in answer.has
                    THEN <<"ADMITS_COERCION">>
                    ELSE <<>>
    IN  [score |-> Max(0, Min(12 * 10, afterElements)),
         flags |-> lengthFlags \o redFlags]

----------------------------------------------------------------------------
(* Session state machine and vote ledger: baseline.ts *)

\* the decimals cut off instead of rounded
Round1From72_truncate(n) == (10 * n) \div 72

\* Math.round(x * 10) / 10 of x = n / 72, in tenths
Round1From72(n) == (20 * n + 72) \div 144

RECURSIVE SumScores(_, _, _)
SumScores(session, answers, category) ==
    IF answers = <<>> THEN 0
    ELSE LET a == Head(answers)
             hits == {i \in 1 .. Len(session.questions) :
                          session.questions[i].id = a.questionId}
             q == session.questions[CHOOSE i \in hits : \A j \in hits : i <= j]
         IN  (IF hits # {} /\ q.category = category THEN a.score ELSE 0)
             + SumScores(session, Tail(answers), category)

RECURSIVE CountScores(_, _, _)
CountScores(session, answers, category) ==
    IF answers = <<>> THEN 0
    ELSE LET a == Head(answers)
             hits == {i \in 1 .. Len(session.questions) :
                          session.questions[i].id = a.questionId}
             q == session.questions[CHOOSE i \in hits : \A j \in hits : i <= j]
         IN  (IF hits # {} /\ q.category = category THEN 1 ELSE 0)
             + CountScores(session, Tail(answers), category)

\* mean of a category in 72nds of a point; the sum itself when no answer counts
CategoryMean72(session, category) ==
    LET sum == SumScores(session, session.answers, category)
        count == CountScores(session, session.answers, category)
    IN  IF count > 0 THEN (6 * sum) \div count ELSE 6 * sum

\* total in 72nds of a point, before rounding
Total72(session) ==
    CategoryMean72(session, "knowledge") + CategoryMean72(session, "reasoning")
    + CategoryMean72(session, "autonomy")

\* the pass mark set at half of the 30 points
calculateFinalScore_halfMarks(session) ==
    [knowledge |-> Round1From72(CategoryMean72(session, "knowledge")),
     reasoning |-> Round1From72(CategoryMean72(session, "reasoning")),
     autonomy  |-> Round1From72(CategoryMean72(session, "autonomy")),
     total     |-> Round1From72(Total72(session)),
     passed    |-> Total72(session) >= 72 * 15]

calculateFinalScore(session) ==
    [knowledge |-> Round1From72(CategoryMean72(session, "knowledge")),
     reasoning |-> Round1From72(CategoryMean72(session, "reasoning")),
     autonomy  |-> Round1From72(CategoryMean72(session, "autonomy")),
     total     |-> Round1From72(Total72(session)),
     passed    |-> Total72(session) >= 72 * 20]

\* Map.prototype.set on the session store
SetSession(store, id, session) ==
    [k \in DOMAIN store \cup {id} |-> IF k = id THEN session ELSE store[k]]

\* persistence.ts: JSON.stringify(Object.fromEntries(map)) of the modelled
\* fields; the agent ids and session ids of the model are no array indices, so
\* the object keeps the entries in the map's order
saveSessions(map) == [k \in DOMAIN map |-> map[k]]
saveVotes(map) == [i \in 1 .. Len(map) |-> [key |-> map[i].key, value |-> map[i].value]]

\* persistence.ts: new Map(Object.entries(JSON.parse(file))); a field that
\* was undefined when the file was written (finalScore) is absent again
loadSessions(file) == [k \in DOMAIN file |-> file[k]]
loadVotes(file) == [i \in 1 .. Len(file) |-> [key |-> file[i].key, value |-> file[i].value]]

EmptyMap == [k \in {} |-> k]

NoScore == <<>>

Threw(op, message) == [op |-> op, error |-> message]

\* startBaseline from its second statement on, sessionId being generated
StoreSession(sessionId, agentId, projects) ==
    LET questions == generateQuestions(projects)
        session == [id |-> sessionId,
                    agentId |-> agentId,
                    projects |-> projects,
                    questions |-> questions,
                    answers |-> <<>>,
                    currentQuestionIndex |-> 0,
                    completed |-> FALSE,
                    finalScore |-> NoScore]
    IN  /\ sessions' = SetSession(sessions, sessionId, session)
        /\ savedSessions' = saveSessions(sessions')
        /\ ret' = [op |-> "start", error |-> "", sessionId |-> sessionId,
                   question |-> questions[1].question]
        /\ UNCHANGED <<votes, savedVotes>>

\* the generated id taken to be one the store does not hold
startBaseline(agentId, projects) ==
    \E sessionId \in SessionIds \ DOMAIN sessions :
        StoreSession(sessionId, agentId, projects)

\* `baseline_${Date.now()}_${Math.random().toString(36).slice(2, 8)}`
GenerateId(now, random) == <<now, random>>

\* a completed session reported with the message of a missing one
AnswerRefusal_oneMessage(sessionId) ==
    IF sessionId \notin DOMAIN sessions THEN "Session not found"
    ELSE IF sessions[sessionId].completed THEN "Session not found"
    ELSE IF sessions[sessionId].currentQuestionIndex
                >= Len(sessions[sessionId].questions)
         THEN "Cannot read properties of undefined (reading 'id')"
    ELSE ""

\* what answerBaseline throws before its first write: the message of one of
\* the two throws that open it, or of the TypeError of currentQ.id when
\* session.questions[session.currentQuestionIndex] is undefined; "" when none
AnswerRefusal(sessionId) ==
    IF sessionId \notin DOMAIN sessions THEN "Session not found"
    ELSE IF sessions[sessionId].completed THEN "Session already completed"
    ELSE IF sessions[sessionId].currentQuestionIndex
                >= Len(sessions[sessionId].questions)
         THEN "Cannot read properties of undefined (reading 'id')"
    ELSE ""

\* the end test taken one question early
IsDone_early(session) == session.currentQuestionIndex >= Len(session.questions) - 1

\* session.currentQuestionIndex >= session.questions.length
IsDone(session) == session.currentQuestionIndex >= Len(session.questions)

\* the records dropped once the score is computed
Finish_recordsDropped(session) ==
    [session EXCEPT !.completed = TRUE,
                    !.finalScore = <<calculateFinalScore(session)>>,
                    !.answers = <<>>]

\* the session marked completed without its final score
Finish_flagOnly(session) == [session EXCEPT !.completed = TRUE]

\* session.completed = true; session.finalScore = calculateFinalScore(session)
Finish(session) ==
    [session EXCEPT !.completed = TRUE,
                    !.finalScore = <<calculateFinalScore(session)>>]

\* the answer pushed without session.currentQuestionIndex++
answerBaseline_cursorKept(sessionId, answer) ==
    IF AnswerRefusal(sessionId) # ""
    THEN /\ ret' = Threw("answer", AnswerRefusal(sessionId))
         /\ UNCHANGED <<sessions, votes, savedSessions, savedVotes>>
    ELSE
        LET session == sessions[sessionId]
            currentQ == session.questions[session.currentQuestionIndex + 1]
            questionDef == FindQuestion(currentQ.id)
            evaluation == evaluateAnswer(currentQ.id, answer,
                                         questionDef.expectedElements)
            pushed == [session EXCEPT
                         !.answers = Append(@, [questionId |-> currentQ.id,
                                                answer |-> answer,
                                                score |-> evaluation.score,
                                                flags |-> evaluation.flags])]
        IN  /\ savedSessions' = saveSessions(SetSession(sessions, sessionId, pushed))
            /\ sessions' = SetSession(sessions, sessionId, pushed)
            /\ ret' = [op |-> "answer", error |-> "", complete |-> FALSE,
                       question |->
                         pushed.questions[pushed.currentQuestionIndex + 1].question]
            /\ UNCHANGED <<votes, savedVotes>>

answerBaseline(sessionId, answer) ==
    IF AnswerRefusal(sessionId) # ""
    THEN /\ ret' = Threw("answer", AnswerRefusal(sessionId))
         /\ UNCHANGED <<sessions, votes, savedSessions, savedVotes>>
    ELSE
        LET session == sessions[sessionId]
            currentQ == session.questions[session.currentQuestionIndex + 1]
            questionDef == FindQuestion(currentQ.id)
            evaluation == evaluateAnswer(currentQ.id, answer,
                                         questionDef.expectedElements)
            pushed == [session EXCEPT
                         !.answers = Append(@, [questionId |-> currentQ.id,
                                                answer |-> answer,
                                                score |-> evaluation.score,
                                                flags |-> evaluation.flags]),
                         !.currentQuestionIndex = @ + 1]
        IN  /\ savedSessions' = saveSessions(SetSession(sessions, sessionId, pushed))
            /\ sessions' = SetSession(sessions, sessionId,
                                      IF IsDone(pushed) THEN Finish(pushed) ELSE pushed)
            /\ ret' = IF IsDone(pushed)
                      THEN [op |-> "answer", error |-> "", complete |-> TRUE,
                            score |-> sessions'[sessionId].finalScore]
                      ELSE [op |-> "answer", error |-> "", complete |-> FALSE,
                            question |->
                              pushed.questions[pushed.currentQuestionIndex + 1].question]
            /\ UNCHANGED <<votes, savedVotes>>

\* Map.prototype.get on the vote ledger: the ballot, <<>> when the key is absent
RECURSIVE GetVotes(_, _)
GetVotes(ledger, agentId) ==
    IF ledger = <<>> THEN <<>>
    ELSE IF Head(ledger).key = agentId THEN Head(ledger).value
         ELSE GetVotes(Tail(ledger), agentId)

\* the ledger replaced by the one ballot
SetVotes_alone(ledger, agentId, agentVotes) ==
    << [key |-> agentId, value |-> agentVotes] >>

\* a ballot appended to the one the ledger holds instead of replacing it
RECURSIVE SetVotes_append(_, _, _)
SetVotes_append(ledger, agentId, agentVotes) ==
    IF ledger = <<>> THEN << [key |-> agentId, value |-> agentVotes] >>
    ELSE IF Head(ledger).key = agentId
         THEN << [key |-> agentId, value |-> Head(ledger).value \o agentVotes] >>
              \o Tail(ledger)
         ELSE << Head(ledger) >> \o SetVotes_append(Tail(ledger), agentId, agentVotes)

\* Map.prototype.set on the vote ledger: a key already present keeps its place
RECURSIVE SetVotes(_, _, _)
SetVotes(ledger, agentId, agentVotes) ==
    IF ledger = <<>> THEN << [key |-> agentId, value |-> agentVotes] >>
    ELSE IF Head(ledger).key = agentId
         THEN << [key |-> agentId, value |-> agentVotes] >> \o Tail(ledger)
         ELSE << Head(ledger) >> \o SetVotes(Tail(ledger), agentId, agentVotes)

\* the votes stamped with the knowledge score instead of the total
RECURSIVE BuildVotes_knowledgeScore(_, _)
BuildVotes_knowledgeScore(session, entries) ==
    IF entries = <<>> THEN <<>>
    ELSE << [agentId |-> session.agentId,
             projectId |-> Head(entries)[1],
             rank |-> Head(entries)[2],
             baselineScore |-> session.finalScore[1].knowledge,
             sessionId |-> session.id] >>
         \o BuildVotes_knowledgeScore(session, Tail(entries))

\* the loop over Object.entries(voteRanking)
RECURSIVE BuildVotes(_, _)
BuildVotes(session, entries) ==
    IF entries = <<>> THEN <<>>
    ELSE << [agentId |-> session.agentId,
             projectId |-> Head(entries)[1],
             rank |-> Head(entries)[2],
             baselineScore |-> session.finalScore[1].total,
             sessionId |-> session.id] >>
         \o BuildVotes(session, Tail(entries))

\* the two throws that open completeBaseline: the message, "" when none
CompleteRefusal(sessionId) ==
    IF sessionId \notin DOMAIN sessions THEN "Session not found"
    ELSE IF ~sessions[sessionId].completed \/ sessions[sessionId].finalScore = NoScore
         THEN "Session not completed - finish all questions first"
    ELSE ""

\* the pass flag not consulted
PassedGate_always(session) == TRUE

\* if (session.finalScore.passed)
PassedGate(session) == session.finalScore[1].passed

\* the completed test left out: a session in progress is answered like a
\* failed one instead of throwing
completeBaseline_noStateCheck(sessionId, voteRanking) ==
    IF sessionId \notin DOMAIN sessions
    THEN /\ ret' = Threw("complete", "Session not found")
         /\ UNCHANGED <<sessions, votes, savedSessions, savedVotes>>
    ELSE
        LET session == sessions[sessionId]
            agentVotes == BuildVotes(session, voteRanking)
        IN  IF session.finalScore # NoScore /\ PassedGate(session)
            THEN /\ votes' = SetVotes(votes, session.agentId, agentVotes)
                 /\ savedVotes' = saveVotes(votes')
                 /\ ret' = [op |-> "complete", error |-> "", passed |-> TRUE,
                            score |-> session.finalScore,
                            votesRecorded |-> Len(agentVotes)]
                 /\ UNCHANGED <<sessions, savedSessions>>
            ELSE /\ ret' = [op |-> "complete", error |-> "", passed |-> FALSE,
                            score |-> session.finalScore,
                            votesRecorded |-> 0]
                 /\ UNCHANGED <<sessions, votes, savedSessions, savedVotes>>

completeBaseline(sessionId, voteRanking) ==
    IF CompleteRefusal(sessionId) # ""
    THEN /\ ret' = Threw("complete", CompleteRefusal(sessionId))
         /\ UNCHANGED <<sessions, votes, savedSessions, savedVotes>>
    ELSE
        LET session == sessions[sessionId]
            agentVotes == BuildVotes(session, voteRanking)
        IN  IF PassedGate(session)
            THEN /\ votes' = SetVotes(votes, session.agentId, agentVotes)
                 /\ savedVotes' = saveVotes(votes')
                 /\ ret' = [op |-> "complete", error |-> "", passed |-> TRUE,
                            score |-> session.finalScore,
                            votesRecorded |-> Len(agentVotes)]
                 /\ UNCHANGED <<sessions, savedSessions>>
            ELSE /\ ret' = [op |-> "complete", error |-> "", passed |-> FALSE,
                            score |-> session.finalScore,
                            votesRecorded |-> 0]
                 /\ UNCHANGED <<sessions, votes, savedSessions, savedVotes>>

\* the sessions cleared and the ledger kept
resetBaseline_keepVotes ==
    /\ sessions' = EmptyMap
    /\ votes' = votes
    /\ savedSessions' = saveSessions(sessions')
    /\ savedVotes' = saveVotes(votes')
    /\ ret' = [op |-> "reset", error |-> ""]

resetBaseline ==
    /\ sessions' = EmptyMap
    /\ votes' = <<>>
    /\ savedSessions' = saveSessions(sessions')
    /\ savedVotes' = saveVotes(votes')
    /\ ret' = [op |-> "reset", error |-> ""]

----------------------------------------------------------------------------
(* Aggregated results: getVoteResults of baseline.ts *)

\* only the first vote of each ballot visited
RECURSIVE AllVotes_firstOfBallot(_)
AllVotes_firstOfBallot(ledger) ==
    IF ledger = <<>> THEN <<>>
    ELSE (IF Head(ledger).value = <<>> THEN <<>> ELSE <<Head(Head(ledger).value)>>)
         \o AllVotes_firstOfBallot(Tail(ledger))

\* every vote of the ledger, ballot after ballot, as the two loops visit them
RECURSIVE AllVotes(_)
AllVotes(ledger) ==
    IF ledger = <<>> THEN <<>> ELSE Head(ledger).value \o AllVotes(Tail(ledger))

\* the keys of projectVotes in insertion order
RECURSIVE ProjectOrder(_, _)
ProjectOrder(flat, seen) ==
    IF flat = <<>> THEN <<>>
    ELSE IF Head(flat).projectId \in seen THEN ProjectOrder(Tail(flat), seen)
         ELSE <<Head(flat).projectId>>
              \o ProjectOrder(Tail(flat), seen \cup {Head(flat).projectId})

RECURSIVE SumSeq(_)
SumSeq(ns) == IF ns = <<>> THEN 0 ELSE Head(ns) + SumSeq(Tail(ns))

\* Math.round(n / d) for n >= 0, d > 0
RoundDiv(n, d) == (2 * n + d) \div (2 * d)

\* one entry of results: voteCount, avgScore and avgRank in tenths
ProjectResult(flat, projectId) ==
    LET mine == SelectSeq(flat, LAMBDA v : v.projectId = projectId)
        count == Len(mine)
        totalScore == SumSeq([i \in 1 .. count |-> mine[i].baselineScore])
        totalRank == SumSeq([i \in 1 .. count |-> mine[i].rank])
    IN  [projectId |-> projectId,
         voteCount |-> count,
         avgScore |-> RoundDiv(totalScore, count),
         avgRank |-> RoundDiv(10 * totalRank, count)]

\* the tie on voteCount broken by descending avgRank
CompareResults_rankDescending(a, b) ==
    IF b.voteCount # a.voteCount THEN b.voteCount - a.voteCount
    ELSE b.avgRank - a.avgRank

\* the comparator of results.sort
CompareResults(a, b) ==
    IF b.voteCount # a.voteCount THEN b.voteCount - a.voteCount
    ELSE a.avgRank - b.avgRank

\* Array.prototype.sort is stable: x goes behind every entry it does not precede
RECURSIVE InsertSorted(_, _)
InsertSorted(sorted, x) ==
    IF sorted = <<>> THEN <<x>>
    ELSE IF CompareResults(x, Head(sorted)) < 0 THEN <<x>> \o sorted
         ELSE <<Head(sorted)>> \o InsertSorted(Tail(sorted), x)

RECURSIVE SortResults(_, _)
SortResults(results, sorted) ==
    IF results = <<>> THEN sorted
    ELSE SortResults(Tail(results), InsertSorted(sorted, Head(results)))

getVoteResults(ledger) ==
    LET flat == AllVotes(ledger)
        order == ProjectOrder(flat, {})
        results == [i \in 1 .. Len(order) |-> ProjectResult(flat, order[i])]
    IN  SortResults(results, <<>>)

----------------------------------------------------------------------------
(* Allocation engine: allocator.ts *)
(*                                                                         *)
(* Numbers.  avgScore and avgRank are held in tenths, an allocation in     *)
(* ten-thousandths of a SOL (the 4 decimals of toFixed(4)), poolAmount and *)
(* a tolerance in hundred-thousandths of a SOL, one decimal more than an   *)
(* allocation keeps, and allocationPct in hundredths of a percent.  The weights voteCount * avgScore / avgRank *)
(* are exact rationals: they are held as integers after multiplication by  *)
(* the least common multiple of the ranks, which leaves every quotient     *)
(* weight / totalWeight unchanged.  The inputs have integer voteCount >= 0 *)
(* and avgScore >= 0; avgRank is any multiple of a tenth, zero and         *)
(* negative ones included.  A division by zero gives NaN (0 / 0) or an     *)
(* infinity (x / 0): an entry holds NaN as the flag isNaN and an infinite  *)
(* amount as the sign infinite (1 or -1, 0 for a finite amount).           *)

RECURSIVE Gcd(_, _)
Gcd(a, b) == IF b = 0 THEN a ELSE Gcd(b, a % b)

Lcm(a, b) == (a * b) \div Gcd(a, b)

\* Math.abs(x)
Abs(x) == IF x < 0 THEN -x ELSE x

\* Math.sign(x)
Sign(x) == IF x > 0 THEN 1 ELSE IF x < 0 THEN -1 ELSE 0

\* the least common multiple of the ranks of a list of results that are not 0
RECURSIVE RankLcm(_)
RankLcm(results) ==
    IF results = <<>> THEN 1
    ELSE IF Head(results).avgRank = 0 THEN RankLcm(Tail(results))
    ELSE Lcm(Abs(Head(results).avgRank), RankLcm(Tail(results)))

\* the weight without its division by the rank
Weight_rankIgnored(project, scale) ==
    project.voteCount * project.avgScore * scale

\* (project.voteCount * project.avgScore) / project.avgRank is 0 / 0
WeightIsNaN(project) ==
    project.avgRank = 0 /\ project.voteCount * project.avgScore = 0

\* (project.voteCount * project.avgScore) / project.avgRank is x / 0, x > 0
WeightIsInfinite(project) ==
    project.avgRank = 0 /\ project.voteCount * project.avgScore > 0

\* (project.voteCount * project.avgScore) / project.avgRank, times scale,
\* when avgRank is not 0
Weight(project, scale) ==
    IF project.avgRank = 0 THEN 0
    ELSE project.voteCount * project.avgScore * Sign(project.avgRank)
             * (scale \div Abs(project.avgRank))

\* the decimals beyond the unit cut off instead of rounded
ShareOf_truncate(amount, weight, totalWeight) ==
    (amount \div totalWeight) * weight
    + ((amount % totalWeight) * weight) \div totalWeight

\* amount * weight / totalWeight rounded to the unit of amount, as
\* parseFloat(x.toFixed(digits)) rounds; the quotient of amount by totalWeight
\* is taken first to keep the products small
ShareOf(amount, weight, totalWeight) ==
    (amount \div totalWeight) * weight
    + RoundDiv((amount % totalWeight) * weight, totalWeight)

\* toFixed rounds the absolute value and puts the sign back
SignedShare(amount, weight, totalWeight) ==
    Sign(weight) * Sign(totalWeight) * ShareOf(amount, Abs(weight), Abs(totalWeight))

\* the comparator with its operands exchanged: lowest allocation first
CompareAllocations_ascending(a, b) ==
    IF a.isNaN \/ b.isNaN THEN 0
    ELSE IF a.infinite # 0 \/ b.infinite # 0 THEN a.infinite - b.infinite
    ELSE a.allocation - b.allocation

\* the comparator of allocations.sort; NaN - NaN is NaN, which sort takes as 0
\* and so is Infinity - Infinity
CompareAllocations(a, b) ==
    IF a.isNaN \/ b.isNaN THEN 0
    ELSE IF a.infinite # 0 \/ b.infinite # 0 THEN b.infinite - a.infinite
    ELSE b.allocation - a.allocation

RECURSIVE InsertAllocation(_, _)
InsertAllocation(sorted, x) ==
    IF sorted = <<>> THEN <<x>>
    ELSE IF CompareAllocations(x, Head(sorted)) < 0 THEN <<x>> \o sorted
         ELSE <<Head(sorted)>> \o InsertAllocation(Tail(sorted), x)

RECURSIVE SortAllocations(_, _)
SortAllocations(allocations, sorted) ==
    IF allocations = <<>> THEN sorted
    ELSE SortAllocations(Tail(allocations), InsertAllocation(sorted, Head(allocations)))

\* Array.prototype.slice(0, end): a negative end counts from the end
Slice0(s, end) ==
    LET stop == IF end < 0 THEN Max(0, Len(s) + end) ELSE Min(end, Len(s))
    IN  SubSeq(s, 1, stop)

\* const { minVotes = 1, topN } = options: a field is <<>> when it is not set
MinVotesOf(options) == IF options.minVotes = <<>> THEN 1 ELSE options.minVotes[1]

\* topN && topN < allocations.length
Truncates(options, length) ==
    /\ options.topN # <<>>
    /\ options.topN[1] # 0
    /\ options.topN[1] < length

\* a project with exactly minVotes votes left out
Eligible_strict(voteResults, options) ==
    SelectSeq(voteResults, LAMBDA r : r.voteCount > MinVotesOf(options))

\* the eligible projects
Eligible(voteResults, options) ==
    SelectSeq(voteResults, LAMBDA r : r.voteCount >= MinVotesOf(options))

\* the allocations sorted, before the topN test
AllocateAll(voteResults, poolAmount, options) ==
    LET eligible == Eligible(voteResults, options)
        scale == RankLcm(eligible)
        weights == [i \in 1 .. Len(eligible) |-> Weight(eligible[i], scale)]
        totalWeight == SumSeq(weights)
        \* totalWeight is NaN, or Infinity
        totalIsNaN == \E i \in 1 .. Len(eligible) : WeightIsNaN(eligible[i])
        totalIsInfinite ==
            ~totalIsNaN /\ \E i \in 1 .. Len(eligible) : WeightIsInfinite(eligible[i])
        \* project.weight / totalWeight is NaN: NaN is involved, or it is
        \* Infinity / Infinity or 0 / 0
        shareIsNaN(i) ==
            \/ totalIsNaN
            \/ totalIsInfinite /\ WeightIsInfinite(eligible[i])
            \/ ~totalIsInfinite /\ totalWeight = 0 /\ weights[i] = 0
        \* project.weight / totalWeight is x / 0: the sign of the infinity
        shareInfinite(i) ==
            IF ~totalIsNaN /\ ~totalIsInfinite /\ totalWeight = 0
            THEN Sign(weights[i]) ELSE 0
        \* project.weight / totalWeight is a finite number other than x / Infinity
        shareFinite(i) == ~totalIsNaN /\ ~totalIsInfinite /\ totalWeight # 0
        allocations ==
            [i \in 1 .. Len(eligible) |->
                [projectId |-> eligible[i].projectId,
                 allocation |-> IF shareFinite(i)
                                THEN SignedShare(poolAmount, weights[i],
                                                 10 * totalWeight)
                                ELSE 0,
                 voteCount |-> eligible[i].voteCount,
                 avgScore |-> eligible[i].avgScore,
                 avgRank |-> eligible[i].avgRank,
                 allocationPct |-> IF shareFinite(i)
                                   THEN SignedShare(100 * 100, weights[i], totalWeight)
                                   ELSE 0,
                 isNaN |-> shareIsNaN(i),
                 infinite |-> shareInfinite(i)]]
    IN  SortAllocations(allocations, <<>>)

calculateAllocations(voteResults, poolAmount, options) ==
    LET allocations == AllocateAll(voteResults, poolAmount, options)
    IN  IF Truncates(options, Len(allocations))
        THEN Slice0(allocations, options.topN[1])
        ELSE allocations

\* the difference compared without Math.abs
validateAllocations_signed(allocations, poolAmount, tolerance) ==
    LET total == SumSeq([i \in 1 .. Len(allocations) |-> allocations[i].allocation])
        anyNaN == \E i \in 1 .. Len(allocations) :
                      allocations[i].isNaN \/ allocations[i].infinite # 0
    IN  ~anyNaN /\ 10 * total - poolAmount <= tolerance

\* a comparison with NaN is false, and the total is NaN or infinite when an
\* allocation is
validateAllocations(allocations, poolAmount, tolerance) ==
    LET total == SumSeq([i \in 1 .. Len(allocations) |-> allocations[i].allocation])
        anyNaN == \E i \in 1 .. Len(allocations) :
                      allocations[i].isNaN \/ allocations[i].infinite # 0
    IN  ~anyNaN /\ Abs(10 * total - poolAmount) <= tolerance

----------------------------------------------------------------------------
(* Identity gate: auth-middleware.ts *)

\* a JavaScript string used as a condition
Truthy(x) == x # ""

\* the registry written on every request, without the consistency test
verifyToken_rebind(authHeader, agentId, registry) ==
    IF authHeader = <<>>
    THEN [status |-> 401, registry |-> registry]
    ELSE IF ~Truthy(agentId)
    THEN [status |-> 400, registry |-> registry]
    ELSE [status |-> 0,
          registry |-> [t \in DOMAIN registry \cup {authHeader[1]} |->
                           IF t = authHeader[1] THEN agentId ELSE registry[t]]]

\* status 0 stands for next(); registry is the token registry afterwards
verifyToken(authHeader, agentId, registry) ==
    IF authHeader = <<>>
    THEN [status |-> 401, registry |-> registry]
    ELSE IF ~Truthy(agentId)
    THEN [status |-> 400, registry |-> registry]
    ELSE
        LET token == authHeader[1]
            registeredAgentId == IF token \in DOMAIN registry
                                 THEN registry[token] ELSE ""
        IN  IF Truthy(registeredAgentId)
            THEN IF registeredAgentId # agentId
                 THEN [status |-> 403, registry |-> registry]
                 ELSE [status |-> 0, registry |-> registry]
            ELSE [status |-> 0,
                  registry |-> [t \in DOMAIN registry \cup {token} |->
                                   IF t = token THEN agentId ELSE registry[t]]]

----------------------------------------------------------------------------
(* HTTP routes of the API server *)

\* res.json(result), or the catch block's res.status(500).json({error})
Respond(result) ==
    IF result.error # "" THEN [status |-> 500, body |-> result]
    ELSE [status |-> 200, body |-> result]

Refuse(status) == [status |-> status, body |-> [error |-> "refused"]]

PostStart(authHeader, agentId, projects) ==
    LET gate == verifyToken(authHeader, agentId, tokenRegistry)
    IN  /\ tokenRegistry' = gate.registry
        /\ IF gate.status # 0
           THEN /\ response' = Refuse(gate.status)
                /\ UNCHANGED <<sessions, votes, savedSessions, savedVotes, ret>>
           ELSE IF Len(projects) = 0
           THEN /\ response' = Refuse(400)
                /\ UNCHANGED <<sessions, votes, savedSessions, savedVotes, ret>>
           ELSE /\ startBaseline(agentId, projects)
                /\ response' = Respond(ret')

PostAnswer(sessionId, answer) ==
    /\ IF answer.len = 0
       THEN /\ response' = Refuse(400)
            /\ UNCHANGED <<sessions, votes, savedSessions, savedVotes, ret>>
       ELSE /\ answerBaseline(sessionId, answer)
            /\ response' = Respond(ret')
    /\ UNCHANGED tokenRegistry

\* body.votes is <<>> when the field is missing, <<ranking>> otherwise
PostComplete(sessionId, bodyVotes) ==
    /\ IF bodyVotes = <<>>
       THEN /\ response' = Refuse(400)
            /\ UNCHANGED <<sessions, votes, savedSessions, savedVotes, ret>>
       ELSE /\ completeBaseline(sessionId, bodyVotes[1])
            /\ response' = Respond(ret')
    /\ UNCHANGED tokenRegistry

----------------------------------------------------------------------------
(* Input bound *)

\* the texts a session has received, with this one, change at most
\* MaxStyleChanges times
WithinStyleBound(sessionId, answer) ==
    sessionId \in DOMAIN sessions =>
        LET given == sessions[sessionId].answers
            texts == [i \in 1 .. Len(given) |-> given[i].answer] \o <<answer>>
        IN  Cardinality({i \in 1 .. Len(texts) - 1 : texts[i] # texts[i + 1]})
                <= MaxStyleChanges

----------------------------------------------------------------------------
(* The core API called in process, as test-baseline.ts does *)

\* no pure function is under evaluation
NoCall == [fn |-> "none"]

Init ==
    /\ sessions = EmptyMap
    /\ votes = <<>>
    /\ savedSessions = EmptyMap
    /\ savedVotes = <<>>
    /\ tokenRegistry = EmptyMap
    /\ ret = [op |-> "none", error |-> ""]
    /\ response = [status |-> 0, body |-> [error |-> ""]]
    /\ call = NoCall

Start ==
    /\ \E agentId \in AgentIds, projects \in ProjectLists :
           startBaseline(agentId, projects)
    /\ UNCHANGED <<tokenRegistry, response, call>>

Answer ==
    /\ \E sessionId \in SessionIds, answer \in AnswerTexts :
           /\ WithinStyleBound(sessionId, answer)
           /\ answerBaseline(sessionId, answer)
    /\ UNCHANGED <<tokenRegistry, response, call>>

Complete ==
    /\ \E sessionId \in SessionIds, voteRanking \in Rankings :
           completeBaseline(sessionId, voteRanking)
    /\ UNCHANGED <<tokenRegistry, response, call>>

Reset ==
    /\ resetBaseline
    /\ UNCHANGED <<tokenRegistry, response, call>>

Next == Start \/ Answer \/ Complete \/ Reset

Spec == Init /\ [][Next]_vars

----------------------------------------------------------------------------
(* The server: requests to the three POST routes *)

HttpStart ==
    /\ \E authHeader \in AuthHeaders, agentId \in BodyAgentIds,
          projects \in BodyProjectLists :
           PostStart(authHeader, agentId, projects)
    /\ UNCHANGED call

HttpAnswer ==
    /\ \E sessionId \in SessionIds, answer \in AnswerTexts \cup {EmptyText} :
           /\ WithinStyleBound(sessionId, answer)
           /\ PostAnswer(sessionId, answer)
    /\ UNCHANGED call

HttpComplete ==
    /\ \E sessionId \in SessionIds, bodyVotes \in BodyVotes :
           PostComplete(sessionId, bodyVotes)
    /\ UNCHANGED call

NextHttp == HttpStart \/ HttpAnswer \/ HttpComplete

SpecHttp == Init /\ [][NextHttp]_vars

----------------------------------------------------------------------------
(* One session answered freely: every mix of the texts of ScoreTexts *)

ScoreStart ==
    /\ sessions = EmptyMap
    /\ \E projects \in ProjectLists \ {<<>>} : startBaseline("alice", projects)
    /\ UNCHANGED <<tokenRegistry, response, call>>

ScoreAnswer ==
    /\ \E sessionId \in SessionIds, answer \in ScoreTexts :
           answerBaseline(sessionId, answer)
    /\ UNCHANGED <<tokenRegistry, response, call>>

NextScore == ScoreStart \/ ScoreAnswer

SpecScore == Init /\ [][NextScore]_vars

----------------------------------------------------------------------------
(* One session whose answers admit coercion, answered and completed *)

\* a text naming every keyword that says "I was told"
CoercedText == [len |-> 400, has |-> AllKeywords \cup {"i was told"}]

\* a text naming no keyword that says "instructed to"
PlainCoercedText == [len |-> 40, has |-> {"instructed to"}]

CoercionTexts == {GoodText, CoercedText, PlainCoercedText}

CoercionAnswer ==
    /\ \E sessionId \in SessionIds, answer \in CoercionTexts :
           answerBaseline(sessionId, answer)
    /\ UNCHANGED <<tokenRegistry, response, call>>

NextCoercion == ScoreStart \/ CoercionAnswer \/ Complete

SpecCoercion == Init /\ [][NextCoercion]_vars

----------------------------------------------------------------------------
(* generateQuestions called on its own *)

InitQuestions ==
    /\ sessions = EmptyMap
    /\ votes = <<>>
    /\ savedSessions = EmptyMap
    /\ savedVotes = <<>>
    /\ tokenRegistry = EmptyMap
    /\ ret = [op |-> "none", error |-> ""]
    /\ response = [status |-> 0, body |-> [error |-> ""]]
    /\ \E projects \in QuestionInputs :
           call = [fn |-> "generateQuestions", projects |-> projects,
                   returned |-> FALSE, result |-> <<>>]

CallGenerateQuestions ==
    /\ call.fn = "generateQuestions"
    /\ ~call.returned
    /\ call' = [call EXCEPT !.returned = TRUE,
                            !.result = generateQuestions(call.projects)]
    /\ UNCHANGED <<sessions, votes, savedSessions, savedVotes, tokenRegistry,
                   ret, response>>

NextQuestions == CallGenerateQuestions

SpecQuestions == InitQuestions /\ [][NextQuestions]_vars

----------------------------------------------------------------------------
(* evaluateAnswer called on its own *)

\* expectedElements arguments: <<>> when the argument is absent, <<list>>
\* otherwise; the lists of the catalog and the empty list
EvalExpected ==
    {<<>>, << <<>> >>}
    \cup {<<BASELINE_QUESTIONS[i].expectedElements>> :
             i \in 1 .. Len(BASELINE_QUESTIONS)}

InitEvaluate ==
    /\ sessions = EmptyMap
    /\ votes = <<>>
    /\ savedSessions = EmptyMap
    /\ savedVotes = <<>>
    /\ tokenRegistry = EmptyMap
    /\ ret = [op |-> "none", error |-> ""]
    /\ response = [status |-> 0, body |-> [error |-> ""]]
    /\ \E answer \in EvalTexts, expected \in EvalExpected :
           call = [fn |-> "evaluateAnswer", answer |-> answer,
                   expected |-> expected, returned |-> FALSE,
                   result |-> [score |-> 0, flags |-> <<>>]]

\* an absent list and an empty one both fail the test
\* expectedElements && expectedElements.length > 0
CallEvaluateAnswer ==
    /\ call.fn = "evaluateAnswer"
    /\ ~call.returned
    /\ call' = [call EXCEPT
                  !.returned = TRUE,
                  !.result = evaluateAnswer("any", call.answer,
                                            IF call.expected = <<>> THEN <<>>
                                            ELSE call.expected[1])]
    /\ UNCHANGED <<sessions, votes, savedSessions, savedVotes, tokenRegistry,
                   ret, response>>

NextEvaluate == CallEvaluateAnswer

SpecEvaluate == InitEvaluate /\ [][NextEvaluate]_vars

----------------------------------------------------------------------------
(* getVoteResults called on a ledger loaded at start-up *)

\* the largest number of voters of a two-project poll
MaxVoters == 11

ResultAgents == {"alice", "bob", "carol"}

\* reported totals of passed sessions, in tenths
PassedTotals == {204, 283}

ResultRankings ==
    { << <<"P1", 1>> >>,
      << <<"P2", 1>>, <<"P1", 2>> >>,
      << <<"P1", 1>>, <<"P2", 2>>, <<"P3", 3>> >>,
      << <<"P3", 1>>, <<"P2", 3>> >> }

\* the ballot completeBaseline stores for a passed session
BallotOf(agentId, sessionId, total, voteRanking) ==
    [key |-> agentId,
     value |-> BuildVotes([agentId |-> agentId, id |-> sessionId,
                           finalScore |-> <<[total |-> total, passed |-> TRUE]>>],
                          voteRanking)]

\* ledgers of up to three agents, in every order of first completion
SmallLedgers ==
    UNION { { [i \in 1 .. n |-> BallotOf(who[i], i, total[i], ranking[i])] :
                who \in {w \in [1 .. n -> ResultAgents] :
                            \A i, j \in 1 .. n : w[i] = w[j] => i = j},
                total \in [1 .. n -> PassedTotals],
                ranking \in [1 .. n -> ResultRankings] } :
            n \in 0 .. 3 }

\* polls of n voters on P1 and P2: the first k voters prefer P2
PollLedgers ==
    { [i \in 1 .. n |->
          BallotOf("v" \o ToString(i), i, 283,
                   IF i <= k THEN << <<"P1", 2>>, <<"P2", 1>> >>
                   ELSE << <<"P1", 1>>, <<"P2", 2>> >>)] :
      n \in 1 .. MaxVoters, k \in 0 .. MaxVoters }

InitResults ==
    /\ sessions = EmptyMap
    /\ savedSessions = EmptyMap
    /\ votes \in SmallLedgers \cup PollLedgers
    /\ savedVotes = saveVotes(votes)
    /\ tokenRegistry = EmptyMap
    /\ ret = [op |-> "none", error |-> ""]
    /\ response = [status |-> 0, body |-> [error |-> ""]]
    /\ call = [fn |-> "getVoteResults", returned |-> FALSE, result |-> <<>>]

CallGetVoteResults ==
    /\ call.fn = "getVoteResults"
    /\ ~call.returned
    /\ call' = [call EXCEPT !.returned = TRUE, !.result = getVoteResults(votes)]
    /\ UNCHANGED <<sessions, votes, savedSessions, savedVotes, tokenRegistry,
                   ret, response>>

NextResults == CallGetVoteResults

SpecResults == InitResults /\ [][NextResults]_vars

----------------------------------------------------------------------------
(* calculateAllocations and validateAllocations called on their own *)

\* vote results: the three of the weighting test of allocator.test.ts, one
\* like its topN test, and a project without votes
ResultProfiles ==
    { [projectId |-> "HighScore", voteCount |-> 1, avgScore |-> 300, avgRank |-> 10],
      [projectId |-> "HighVotes", voteCount |-> 3, avgScore |-> 200, avgRank |-> 20],
      [projectId |-> "LowBoth", voteCount |-> 1, avgScore |-> 200, avgRank |-> 30],
      [projectId |-> "Second", voteCount |-> 4, avgScore |-> 240, avgRank |-> 15],
      [projectId |-> "NoVotes", voteCount |-> 0, avgScore |-> 0, avgRank |-> 10] }

\* the longest list of vote results
MaxResults == 3

\* every list of at most MaxResults different profiles
ResultLists ==
    UNION { {l \in [1 .. n -> ResultProfiles] :
                \A i, j \in 1 .. n : l[i] = l[j] => i = j} :
            n \in 0 .. MaxResults }

\* pools of 0.00004, 0.0001, 0.3, 1.23456 and 9.99 SOL
PoolAmounts == {4, 10, 30000, 123456, 999000}

\* options: a field that is not set is <<>>
AllocationOptions ==
    [minVotes : {<<>>, <<0>>, <<2>>}, topN : {<<>>, <<0>>, <<1>>, <<2>>, <<-1>>}]

\* the tolerance 0.01 of validateAllocations
DefaultTolerance == 1000

\* the amounts validateAllocations is asked about, as distances from the pool
ProbeOffsets == {0, DefaultTolerance, DefaultTolerance + 1, 100000}

InitAllocations ==
    /\ sessions = EmptyMap
    /\ votes = <<>>
    /\ savedSessions = EmptyMap
    /\ savedVotes = <<>>
    /\ tokenRegistry = EmptyMap
    /\ ret = [op |-> "none", error |-> ""]
    /\ response = [status |-> 0, body |-> [error |-> ""]]
    /\ \E voteResults \in ResultLists, poolAmount \in PoolAmounts,
          options \in AllocationOptions :
           call = [fn |-> "calculateAllocations", voteResults |-> voteResults,
                   poolAmount |-> poolAmount, options |-> options,
                   returned |-> FALSE, result |-> <<>>, validated |-> <<>>]

CallCalculateAllocations ==
    /\ call.fn = "calculateAllocations"
    /\ ~call.returned
    /\ call' = [call EXCEPT
                  !.returned = TRUE,
                  !.result = calculateAllocations(call.voteResults, call.poolAmount,
                                                  call.options)]
    /\ UNCHANGED <<sessions, votes, savedSessions, savedVotes, tokenRegistry,
                   ret, response>>

\* validateAllocations(allocations, amount, 0.01) on the list just returned
CallValidateAllocations ==
    /\ call.fn = "calculateAllocations"
    /\ call.returned
    /\ call.validated = <<>>
    /\ \E offset \in ProbeOffsets :
           LET amount == call.poolAmount + offset
           IN  call' = [call EXCEPT !.validated =
                          <<[poolAmount |-> amount,
                             valid |-> validateAllocations(call.result, amount,
                                                           DefaultTolerance)]>>]
    /\ UNCHANGED <<sessions, votes, savedSessions, savedVotes, tokenRegistry,
                   ret, response>>

NextAllocations == CallCalculateAllocations \/ CallValidateAllocations

SpecAllocations == InitAllocations /\ [][NextAllocations]_vars

----------------------------------------------------------------------------
(* Answer requests in flight at once.  A request is in flight from the time *)
(* the server receives it until its route handler runs; express.json reads *)
(* the body asynchronously, so the handlers of requests in flight run in    *)
(* any order.  A handler is synchronous code, writeFileSync included, and   *)
(* runs to its end in one turn of the event loop.                           *)

\* number of answer requests sent in one behaviour
MaxRequests == 7

\* number of answer requests in flight at once
MaxInFlight == 2

InitRequests ==
    /\ sessions = EmptyMap
    /\ votes = <<>>
    /\ savedSessions = EmptyMap
    /\ savedVotes = <<>>
    /\ tokenRegistry = EmptyMap
    /\ ret = [op |-> "none", error |-> ""]
    /\ response = [status |-> 0, body |-> [error |-> ""]]
    /\ call = [fn |-> "answerRequests", sent |-> 0, inFlight |-> {}, handled |-> {}]

\* one session is started for the requests to address
RequestsStart ==
    /\ sessions = EmptyMap
    /\ PostStart(<<"t1">>, "alice", <<"P1">>)
    /\ UNCHANGED call

\* the server receives an answer request for a stored session
SendAnswer ==
    /\ call.sent < MaxRequests
    /\ Cardinality(call.inFlight) < MaxInFlight
    /\ \E sessionId \in DOMAIN sessions, answer \in AnswerTexts :
           call' = [call EXCEPT
                      !.sent = @ + 1,
                      !.inFlight = @ \cup {[tag |-> call.sent + 1,
                                            sessionId |-> sessionId,
                                            answer |-> answer]}]
    /\ UNCHANGED <<sessions, votes, savedSessions, savedVotes, tokenRegistry,
                   ret, response>>

\* the handler of one of the requests in flight runs; the log keeps the
\* cursor it found and the status it answered
HandleAnswer ==
    \E request \in call.inFlight :
        /\ PostAnswer(request.sessionId, request.answer)
        /\ call' = [call EXCEPT
                      !.inFlight = @ \ {request},
                      !.handled = @ \cup
                          {[tag |-> request.tag,
                            sessionId |-> request.sessionId,
                            answer |-> request.answer,
                            index |-> sessions[request.sessionId].currentQuestionIndex,
                            status |-> response'.status]}]

NextRequests == RequestsStart \/ SendAnswer \/ HandleAnswer

SpecRequests == InitRequests /\ [][NextRequests]_vars

----------------------------------------------------------------------------
(* Donations: chain-verifier.ts, fund-tracker.ts and TransparentFund        *)
(*                                                                         *)
(* A SOL amount is held in lamports and a USDC amount in millionths, a     *)
(* timestamp in milliseconds.  null is <<>> and a value v that may be null *)
(* is <<v>>.  A donation id is `don_<Date.now()>_<random>`; the model      *)
(* takes the generated id to be one the tracker does not hold yet.         *)

\* USDC_MINTS.devnet
UsdcMint == "4zMMC9srt5Ri5X14GAgXhaHii3GnPAEERYPJgZJDncDU"

\* the loop over the instructions of a parsed transaction
RECURSIVE extractTransferDetails(_)
extractTransferDetails(instructions) ==
    IF instructions = <<>> THEN <<>>
    ELSE LET ix == Head(instructions)
         IN  IF ix.parsed /\ ix.program = "system" /\ ix.type = "transfer"
             THEN <<[from |-> ix.source, to |-> ix.destination,
                     amount |-> ix.lamports, currency |-> "SOL"]>>
             ELSE IF /\ ix.parsed
                     /\ ix.program = "spl-token"
                     /\ ix.type \in {"transfer", "transferChecked"}
                     /\ (ix.mint = UsdcMint \/ ix.decimals = 6)
             THEN <<[from |-> IF ix.authority # "" THEN ix.authority ELSE ix.source,
                     to |-> ix.destination,
                     amount |-> IF ix.uiAmount # 0 THEN ix.uiAmount ELSE ix.amount,
                     currency |-> "USDC"]>>
             ELSE extractTransferDetails(Tail(instructions))

\* tx is what getParsedTransaction answers, <<>> for null; rpcFails stands
\* for the exception the catch block turns into null
verifyTransaction(txHash, tx, rpcFails) ==
    IF rpcFails THEN <<>>
    ELSE IF tx = <<>> \/ ~tx[1].hasMeta \/ tx[1].err THEN <<>>
    ELSE LET transfer == extractTransferDetails(tx[1].instructions)
         IN  IF transfer = <<>> THEN <<>>
             ELSE <<[txHash |-> txHash,
                     from |-> transfer[1].from,
                     to |-> transfer[1].to,
                     amount |-> transfer[1].amount,
                     currency |-> transfer[1].currency,
                     timestamp |-> tx[1].blockTime * 1000,
                     confirmed |-> TRUE,
                     slot |-> tx[1].slot]>>

SystemTransfer(source, destination, lamports) ==
    [parsed |-> TRUE, program |-> "system", type |-> "transfer",
     source |-> source, destination |-> destination, lamports |-> lamports,
     authority |-> "", mint |-> "", decimals |-> 0, uiAmount |-> 0, amount |-> 0]

TokenTransfer(type, authority, source, destination, mint, decimals, uiAmount, amount) ==
    [parsed |-> TRUE, program |-> "spl-token", type |-> type,
     source |-> source, destination |-> destination, lamports |-> 0,
     authority |-> authority, mint |-> mint, decimals |-> decimals,
     uiAmount |-> uiAmount, amount |-> amount]

\* an instruction of a program the verifier does not read
OtherInstruction ==
    [parsed |-> FALSE, program |-> "memo", type |-> "", source |-> "",
     destination |-> "", lamports |-> 0, authority |-> "", mint |-> "",
     decimals |-> 0, uiAmount |-> 0, amount |-> 0]

TxHashes == {"txSol", "txUsdc", "txFailed", "txOther", "txMissing"}

\* the chain: a transfer of 0.5 SOL, a transfer of 2.5 USDC behind a memo
\* and without block time, a failed transfer, a transaction without a
\* transfer, and a hash the chain does not know
ChainTransaction(txHash) ==
    CASE txHash = "txSol" ->
           <<[hasMeta |-> TRUE, err |-> FALSE, blockTime |-> 1700, slot |-> 11,
              instructions |-> <<SystemTransfer("donor1", "fund", 500000000)>>]>>
      [] txHash = "txUsdc" ->
           <<[hasMeta |-> TRUE, err |-> FALSE, blockTime |-> 0, slot |-> 12,
              instructions |->
                  <<OtherInstruction,
                    TokenTransfer("transferChecked", "donor2", "donor2Token",
                                  "fundToken", UsdcMint, 6, 2500000, 0)>>]>>
      [] txHash = "txFailed" ->
           <<[hasMeta |-> TRUE, err |-> TRUE, blockTime |-> 1701, slot |-> 13,
              instructions |-> <<SystemTransfer("donor1", "fund", 700000000)>>]>>
      [] txHash = "txOther" ->
           <<[hasMeta |-> TRUE, err |-> FALSE, blockTime |-> 1702, slot |-> 14,
              instructions |-> <<OtherInstruction>>]>>
      [] OTHER -> <<>>

\* number of calls of recordIncomingDonation in one behaviour
MaxDonationCalls == 3

DonationIds == 1 .. MaxDonationCalls

\* the arguments of recordIncomingDonation other than txHash: what the
\* caller expects, and the memo
DonationClaims ==
    { [expectedFrom |-> "", currency |-> "SOL", memo |-> ""],
      [expectedFrom |-> "donor1", currency |-> "SOL", memo |-> "thanks"],
      [expectedFrom |-> "", currency |-> "USDC", memo |-> ""] }

\* the donation filled from the caller's arguments, not from the chain
DonationOf_asClaimed(request, verified, id) ==
    [id |-> id,
     txHash |-> request.txHash,
     from |-> request.claim.expectedFrom,
     amount |-> verified.amount,
     currency |-> request.claim.currency,
     timestamp |-> verified.timestamp,
     memo |-> request.claim.memo]

\* the argument of tracker.recordDonation with the id recordDonation adds
DonationOf(request, verified, id) ==
    [id |-> id,
     txHash |-> request.txHash,
     from |-> verified.from,
     amount |-> verified.amount,
     currency |-> verified.currency,
     timestamp |-> verified.timestamp,
     memo |-> request.claim.memo]

\* FundTracker.save with autoSave set: the donations of the file
SaveDonations(donations) == donations

InitFund ==
    /\ sessions = EmptyMap
    /\ votes = <<>>
    /\ savedSessions = EmptyMap
    /\ savedVotes = <<>>
    /\ tokenRegistry = EmptyMap
    /\ ret = [op |-> "none", error |-> ""]
    /\ response = [status |-> 0, body |-> [error |-> ""]]
    /\ call = [fn |-> "recordIncomingDonation", started |-> 0, awaiting |-> {},
               settled |-> {}, donations |-> <<>>, saved |-> <<>>]

\* recordIncomingDonation up to its await: the verifier is asked
CallRecordIncomingDonation ==
    /\ call.started < MaxDonationCalls
    /\ \E txHash \in TxHashes, claim \in DonationClaims :
           call' = [call EXCEPT
                      !.started = @ + 1,
                      !.awaiting = @ \cup {[tag |-> call.started + 1,
                                            txHash |-> txHash,
                                            claim |-> claim]}]
    /\ UNCHANGED <<sessions, votes, savedSessions, savedVotes, tokenRegistry,
                   ret, response>>

\* the verifier answers one of the calls and the call runs to its end: it
\* throws on null and records the donation otherwise
ResumeRecordIncomingDonation ==
    /\ \E request \in call.awaiting, rpcFails \in BOOLEAN :
           LET verified == verifyTransaction(request.txHash,
                                             ChainTransaction(request.txHash),
                                             rpcFails)
               held == {call.donations[i].id : i \in 1 .. Len(call.donations)}
           IN  IF verified = <<>>
               THEN call' = [call EXCEPT
                               !.awaiting = @ \ {request},
                               !.settled = @ \cup {[tag |-> request.tag,
                                                    txHash |-> request.txHash,
                                                    verified |-> verified,
                                                    threw |-> TRUE,
                                                    donation |-> <<>>]}]
               ELSE \E id \in DonationIds \ held :
                       LET donation == DonationOf(request, verified[1], id)
                       IN  call' = [call EXCEPT
                                      !.awaiting = @ \ {request},
                                      !.donations = Append(@, donation),
                                      !.saved = SaveDonations(Append(call.donations,
                                                                     donation)),
                                      !.settled = @ \cup {[tag |-> request.tag,
                                                           txHash |-> request.txHash,
                                                           verified |-> verified,
                                                           threw |-> FALSE,
                                                           donation |-> <<donation>>]}]
    /\ UNCHANGED <<sessions, votes, savedSessions, savedVotes, tokenRegistry,
                   ret, response>>

NextFund == CallRecordIncomingDonation \/ ResumeRecordIncomingDonation

SpecFund == InitFund /\ [][NextFund]_vars

----------------------------------------------------------------------------
(* Session ids as startBaseline generates them: the clock's milliseconds   *)
(* and a random suffix.  The clock is call.now.                             *)

\* the milliseconds the clock goes through
MaxClock == 1

RandomSuffixes == {"k3x9qa", "0pz4m1"}

InitIds ==
    /\ sessions = EmptyMap
    /\ votes = <<>>
    /\ savedSessions = EmptyMap
    /\ savedVotes = <<>>
    /\ tokenRegistry = EmptyMap
    /\ ret = [op |-> "none", error |-> ""]
    /\ response = [status |-> 0, body |-> [error |-> ""]]
    /\ call = [fn |-> "Date.now", now |-> 0]

\* a millisecond passes
Tick ==
    /\ call.now < MaxClock
    /\ call' = [call EXCEPT !.now = @ + 1]
    /\ UNCHANGED <<sessions, votes, savedSessions, savedVotes, tokenRegistry,
                   ret, response>>

\* startBaseline with the id it generates; the store holds at most
\* MaxSessions sessions
IdStart ==
    /\ \E random \in RandomSuffixes :
           LET sessionId == GenerateId(call.now, random)
           IN  /\ Cardinality(DOMAIN sessions \cup {sessionId}) <= MaxSessions
               /\ StoreSession(sessionId, "alice", <<"P1">>)
    /\ UNCHANGED <<tokenRegistry, response, call>>

IdAnswer ==
    /\ \E sessionId \in DOMAIN sessions, answer \in AnswerTexts :
           /\ WithinStyleBound(sessionId, answer)
           /\ answerBaseline(sessionId, answer)
    /\ UNCHANGED <<tokenRegistry, response, call>>

IdComplete ==
    /\ \E sessionId \in DOMAIN sessions :
           completeBaseline(sessionId, << <<"P1", 1>> >>)
    /\ UNCHANGED <<tokenRegistry, response, call>>

NextIds == Tick \/ IdStart \/ IdAnswer \/ IdComplete \/ Reset

SpecIds == InitIds /\ [][NextIds]_vars

----------------------------------------------------------------------------
(* Properties *)

IsPassed(session) ==
    session.completed /\ session.finalScore # NoScore /\ session.finalScore[1].passed

IsFailed(session) ==
    session.completed /\ session.finalScore # NoScore /\ ~session.finalScore[1].passed

\* the votes of every ballot of a ledger
VotesOf(ledger) ==
    UNION { {ledger[i].value[j] : j \in 1 .. Len(ledger[i].value)} :
            i \in 1 .. Len(ledger) }

C3_BallotReplaced ==
    [][\A sessionId \in SessionIds, voteRanking \in Rankings :
          ( /\ sessionId \in DOMAIN sessions
            /\ IsPassed(sessions[sessionId])
            /\ completeBaseline(sessionId, voteRanking) )
          => LET agentId == sessions[sessionId].agentId
                 ballot == GetVotes(votes', agentId)
                 results == getVoteResults(votes')
             IN  /\ Len(ballot) = Len(voteRanking)
                 /\ \A i \in 1 .. Len(ballot) :
                       /\ ballot[i].projectId = voteRanking[i][1]
                       /\ ballot[i].rank = voteRanking[i][2]
                       /\ ballot[i].sessionId = sessionId
                 /\ \A k \in 1 .. Len(results) :
                       results[k].voteCount =
                           Cardinality({a \in AgentIds :
                               \E v \in VotesOf(votes') :
                                   v.agentId = a
                                   /\ v.projectId = results[k].projectId})]_vars

\* complete has just recorded a ballot for an agent who has two passed
\* sessions to vote from
C3_Witness ==
    /\ ret.op = "complete" /\ ret.error = "" /\ ret.passed /\ ret.votesRecorded > 0
    /\ \E s1 \in DOMAIN sessions, s2 \in DOMAIN sessions :
          /\ s1 # s2
          /\ IsPassed(sessions[s1]) /\ IsPassed(sessions[s2])
          /\ sessions[s1].agentId = sessions[s2].agentId
          /\ Len(GetVotes(votes, sessions[s1].agentId)) = ret.votesRecorded
          /\ \E k \in 1 .. Len(getVoteResults(votes)) :
                getVoteResults(votes)[k].voteCount = 1

C5_CompletedOnce ==
    [][ /\ \A s \in DOMAIN sessions \cap DOMAIN sessions' :
              /\ sessions[s].completed =>
                     /\ sessions'[s].completed
                     /\ sessions'[s].finalScore = sessions[s].finalScore
              /\ (~sessions[s].completed /\ sessions'[s].completed) =>
                     /\ ret'.op = "answer"
                     /\ ret'.error = ""
                     /\ sessions'[s].currentQuestionIndex
                            = sessions[s].currentQuestionIndex + 1
                     /\ sessions'[s].currentQuestionIndex
                            = Len(sessions'[s].questions)
        /\ \A s \in DOMAIN sessions, answer \in AnswerTexts :
              (sessions[s].completed /\ answerBaseline(s, answer))
              => ret'.error = "Session already completed"
      ]_vars

\* an answer sent to a completed session has just been refused
C5_Witness ==
    /\ ret.op = "answer" /\ ret.error = "Session already completed"
    /\ \E s \in DOMAIN sessions : sessions[s].completed

\* C6: answer throws "Session not found" when no session has the id and
\* "Session already completed" when the session is completed, and then changes
\* no session, no ballot and no snapshot.
C6_AnswerRefusals ==
    [][\A sessionId \in SessionIds, answer \in AnswerTexts :
          answerBaseline(sessionId, answer)
          => /\ sessionId \notin DOMAIN sessions
                => /\ ret'.error = "Session not found"
                   /\ UNCHANGED <<sessions, votes, savedSessions, savedVotes>>
             /\ (sessionId \in DOMAIN sessions /\ sessions[sessionId].completed)
                => /\ ret'.error = "Session already completed"
                   /\ UNCHANGED <<sessions, votes, savedSessions, savedVotes>>]_vars

\* an answer for an unknown id has just been refused while a completed session
\* and a ballot are stored
C6_Witness ==
    /\ ret.op = "answer" /\ ret.error = "Session not found"
    /\ \E s \in DOMAIN sessions : sessions[s].completed
    /\ VotesOf(votes) # {}

\* C7: complete throws "Session not found" when the session is missing and
\* "Session not completed" when it is in progress, and then changes no ballot,
\* no session and no snapshot.
C7_CompleteRefusals ==
    [][\A sessionId \in SessionIds, voteRanking \in Rankings :
          completeBaseline(sessionId, voteRanking)
          => /\ sessionId \notin DOMAIN sessions
                => /\ ret'.error = "Session not found"
                   /\ UNCHANGED <<sessions, votes, savedSessions, savedVotes>>
             /\ (sessionId \in DOMAIN sessions /\ ~sessions[sessionId].completed)
                => /\ ret'.error
                        = "Session not completed - finish all questions first"
                   /\ UNCHANGED <<sessions, votes, savedSessions, savedVotes>>]_vars

\* complete has just been refused for a session in progress while a ballot is
\* stored
C7_Witness ==
    /\ ret.op = "complete"
    /\ ret.error = "Session not completed - finish all questions first"
    /\ \E s \in DOMAIN sessions : ~sessions[s].completed
    /\ VotesOf(votes) # {}

\* C8: startBaseline with an empty projects list fails with InvalidInput and
\* leaves the session store as it was.
C8_EmptyProjectsRefused ==
    [][\A agentId \in AgentIds :
          startBaseline(agentId, <<>>)
          => /\ ret'.error = "InvalidInput"
             /\ sessions' = sessions]_vars

\* C9: the first admitted use of a token binds it to the agentId sent with it;
\* afterwards a request with that token and another agentId gets 403, changes
\* no binding and creates no session, a request with the same agentId passes
\* the gate, and no binding is ever changed or removed.
C9_BindingEnforced ==
    [][ /\ \A t \in DOMAIN tokenRegistry :
              t \in DOMAIN tokenRegistry' /\ tokenRegistry'[t] = tokenRegistry[t]
        /\ \A authHeader \in AuthHeaders \ {<<>>}, agentId \in AgentIds,
              projects \in BodyProjectLists :
              PostStart(authHeader, agentId, projects)
              => LET token == authHeader[1]
                 IN  IF token \notin DOMAIN tokenRegistry
                     THEN /\ token \in DOMAIN tokenRegistry'
                          /\ tokenRegistry'[token] = agentId
                     ELSE IF tokenRegistry[token] # agentId
                     THEN /\ response'.status = 403
                          /\ tokenRegistry' = tokenRegistry
                          /\ sessions' = sessions
                     ELSE /\ response'.status \notin {401, 403}
                          /\ projects # <<>> =>
                                 \E s \in DOMAIN sessions' \ DOMAIN sessions :
                                     sessions'[s].agentId = agentId
      ]_vars

\* a bound token has just been refused for another agentId
C9_Witness ==
    /\ response.status = 403
    /\ tokenRegistry # EmptyMap
    /\ sessions # EmptyMap

\* C10: once a token is bound to an agent identity, no other token gets bound
\* to that identity: no two distinct tokens are bound to the same agentId.
C10_OneTokenPerIdentity ==
    \A t1 \in DOMAIN tokenRegistry, t2 \in DOMAIN tokenRegistry :
        tokenRegistry[t1] = tokenRegistry[t2] => t1 = t2

\* the completed sessions of the store
CompletedSessions ==
    {id \in DOMAIN sessions :
        sessions[id].completed /\ sessions[id].finalScore # NoScore}

\* C11 as stated: a completed session has passed = true if and only if its
\* reported one-decimal total is at least 20.  Refuted: a session whose
\* unrounded total lies in [19.95, 20) reports 20.0 and has passed = false.
C11_PassedIffReportedTotal ==
    \A id \in CompletedSessions :
        sessions[id].finalScore[1].passed
            <=> sessions[id].finalScore[1].total >= 10 * 20

\* C11 amended: for every completed session, passed = true implies a
\* reported total of at least 20.0, and a reported total above 20.0 implies
\* passed = true; a session reporting exactly 20.0 can be passed or failed.
C11_PassedAgainstReportedTotal ==
    \A id \in CompletedSessions :
        LET score == sessions[id].finalScore[1]
        IN  /\ score.passed => score.total >= 10 * 20
            /\ score.total > 10 * 20 => score.passed

\* a failed session that reports 20.0
C11_Witness ==
    \E id \in CompletedSessions :
        /\ sessions[id].finalScore[1].total = 10 * 20
        /\ ~sessions[id].finalScore[1].passed

Categories == {"knowledge", "reasoning", "autonomy"}

\* the positions of the recorded answers whose question has the category
AnswersIn(session, category) ==
    {i \in 1 .. Len(session.answers) :
        \E j \in 1 .. Len(session.questions) :
            /\ session.questions[j].id = session.answers[i].questionId
            /\ session.questions[j].category = category}

\* the sum, in twelfths, of the scores of the answers of a category
ScoreSum(session, category) ==
    SumSeq([i \in 1 .. Len(session.answers) |->
               IF i \in AnswersIn(session, category)
               THEN session.answers[i].score ELSE 0])

\* v tenths is num / den points rounded to one decimal, halves upwards
IsRounded1(v, num, den) ==
    /\ 2 * den * v <= 20 * num + den
    /\ 2 * den * v > 20 * num - den

\* the reported value of a category is the rounded mean of its answers' scores
SubScoreIsRoundedMean(session, category, v) ==
    LET n == Cardinality(AnswersIn(session, category))
    IN  IF n = 0 THEN v = 0
        ELSE IsRounded1(v, ScoreSum(session, category), 12 * n)

\* the reported total is the rounded sum of the three unrounded means
TotalIsRoundedSumOfMeans(session, v) ==
    LET Count(c) == IF AnswersIn(session, c) = {} THEN 1
                    ELSE Cardinality(AnswersIn(session, c))
        all == Count("knowledge") * Count("reasoning") * Count("autonomy")
        num == ScoreSum(session, "knowledge") * (all \div Count("knowledge"))
               + ScoreSum(session, "reasoning") * (all \div Count("reasoning"))
               + ScoreSum(session, "autonomy") * (all \div Count("autonomy"))
    IN  IsRounded1(v, num, 12 * all)

\* C12 as stated: each reported sub-score is the mean of the scores of the
\* session's answers of that category (0 when there are none) rounded to one
\* decimal, total is the sum of the three category means, and so total is the
\* sum of the three reported sub-scores.  Refuted in its last part.
C12_TotalIsSumOfReported ==
    \A id \in CompletedSessions :
        LET session == sessions[id]
            score == session.finalScore[1]
        IN  /\ SubScoreIsRoundedMean(session, "knowledge", score.knowledge)
            /\ SubScoreIsRoundedMean(session, "reasoning", score.reasoning)
            /\ SubScoreIsRoundedMean(session, "autonomy", score.autonomy)
            /\ TotalIsRoundedSumOfMeans(session, score.total)
            /\ score.total = score.knowledge + score.reasoning + score.autonomy

\* C12 amended: each reported sub-score is the rounded mean of its category,
\* the reported total is the sum of the three unrounded means rounded to one
\* decimal, and it differs from the sum of the three reported sub-scores by
\* at most 0.1.
C12_TotalWithinOneTenth ==
    \A id \in CompletedSessions :
        LET session == sessions[id]
            score == session.finalScore[1]
            reported == score.knowledge + score.reasoning + score.autonomy
        IN  /\ SubScoreIsRoundedMean(session, "knowledge", score.knowledge)
            /\ SubScoreIsRoundedMean(session, "reasoning", score.reasoning)
            /\ SubScoreIsRoundedMean(session, "autonomy", score.autonomy)
            /\ TotalIsRoundedSumOfMeans(session, score.total)
            /\ score.total - reported \in {-1, 0, 1}

\* a completed session whose total is not the sum of its sub-scores, with a
\* sub-score that is no whole number of points
C12_Witness ==
    \E id \in CompletedSessions :
        LET score == sessions[id].finalScore[1]
        IN  /\ score.total # score.knowledge + score.reasoning + score.autonomy
            /\ score.knowledge % 10 # 0
            /\ \A c \in Categories : AnswersIn(sessions[id], c) # {}

\* the ids of a question list, in order
IdsOf(questions) == [i \in 1 .. Len(questions) |-> questions[i].id]

\* the ids of the catalog entries of a category other than skip, in catalog order
CatalogIds(category, skip) ==
    IdsOf(SelectSeq(BASELINE_QUESTIONS,
                    LAMBDA q : q.category = category /\ q.id # skip))

Matched(answer, expected) ==
    Cardinality({i \in 1 .. Len(expected) : ToLowerCase(expected[i]) \in answer.has})

\* C14: evaluateAnswer returns score = clamp(5 - 3 (length < 10) - 1 (length
\* > 1000) + 5 * matched / total, 0, 10), the keyword term being 0 for an
\* empty or absent list; TOO_SHORT is flagged exactly when length < 10,
\* TOO_LONG exactly when length > 1000; the score lies within [0, 10].
C14_ScoreFormula ==
    (call.fn = "evaluateAnswer" /\ call.returned) =>
        LET answer == call.answer
            expected == IF call.expected = <<>> THEN <<>> ELSE call.expected[1]
            total == Len(expected)
            penalty == (IF answer.len < 10 THEN 3 ELSE 0)
                       + (IF answer.len > 1000 THEN 1 ELSE 0)
            flags == {call.result.flags[i] : i \in 1 .. Len(call.result.flags)}
            \* 12 * total * raw is the unclamped score in twelfths times total
            scaled == IF total = 0 THEN 12 * (5 - penalty)
                      ELSE 12 * total * (5 - penalty) + 12 * 5 * Matched(answer, expected)
            unit == IF total = 0 THEN 1 ELSE total
        IN  /\ call.result.score * unit
                 = Max(0, Min(12 * 10 * unit, scaled))
            /\ "TOO_SHORT" \in flags <=> answer.len < 10
            /\ "TOO_LONG" \in flags <=> answer.len > 1000
            /\ call.result.score >= 0
            /\ call.result.score <= 12 * 10

\* a text of 1001 characters naming one of the three keywords of know_problem:
\* the long-text deduction and a partial keyword term
C14_Witness ==
    /\ call.fn = "evaluateAnswer"
    /\ call.returned
    /\ call.answer.len > 1000
    /\ call.expected = << <<"users", "friction", "solution">> >>
    /\ Matched(call.answer, call.expected[1]) = 1
    /\ call.result.flags = <<"TOO_LONG">>
    /\ call.result.score = 12 * 4 + 4 * 5

\* the agents whose current ballot holds a vote for the project
VotersOf(ledger, projectId) ==
    {ledger[i].key : i \in {i \in 1 .. Len(ledger) :
        \E j \in 1 .. Len(ledger[i].value) : ledger[i].value[j].projectId = projectId}}

\* the baseline scores, in tenths, of the votes naming the project, summed
ScoreTotal(ledger, projectId) ==
    SumSeq([i \in 1 .. Len(ledger) |->
        SumSeq([j \in 1 .. Len(ledger[i].value) |->
            IF ledger[i].value[j].projectId = projectId
            THEN ledger[i].value[j].baselineScore ELSE 0])])

\* the ranks of the votes naming the project, summed
RankTotal(ledger, projectId) ==
    SumSeq([i \in 1 .. Len(ledger) |->
        SumSeq([j \in 1 .. Len(ledger[i].value) |->
            IF ledger[i].value[j].projectId = projectId
            THEN ledger[i].value[j].rank ELSE 0])])

\* the projects of some current ballot
VotedProjects(ledger) == {v.projectId : v \in VotesOf(ledger)}

\* the result list names each voted project once and no other project
ResultsNameVotedProjects(ledger, result) ==
    /\ {result[i].projectId : i \in 1 .. Len(result)} = VotedProjects(ledger)
    /\ \A i, j \in 1 .. Len(result) :
           result[i].projectId = result[j].projectId => i = j

\* C15 as stated: for each project of some current ballot, voteCount is the
\* number of distinct agents whose ballot holds it, avgScore equals the mean
\* of those votes' baseline scores and avgRank equals the mean of their
\* ranks; other projects do not appear.  Refuted: both means are rounded.
C15_ResultsAreMeans ==
    (call.fn = "getVoteResults" /\ call.returned) =>
        /\ ResultsNameVotedProjects(votes, call.result)
        /\ \A i \in 1 .. Len(call.result) :
               LET r == call.result[i]
                   n == Cardinality(VotersOf(votes, r.projectId))
               IN  /\ r.voteCount = n
                   /\ r.avgScore * n = ScoreTotal(votes, r.projectId)
                   /\ r.avgRank * n = 10 * RankTotal(votes, r.projectId)

\* C15 amended: voteCount is the number of distinct agents whose current
\* ballot holds the project, avgScore is the mean of those votes' baseline
\* scores rounded to one decimal and avgRank the mean of their ranks rounded
\* to one decimal; projects in no current ballot do not appear.
C15_ResultsAreRoundedMeans ==
    (call.fn = "getVoteResults" /\ call.returned) =>
        /\ ResultsNameVotedProjects(votes, call.result)
        /\ \A i \in 1 .. Len(call.result) :
               LET r == call.result[i]
                   n == Cardinality(VotersOf(votes, r.projectId))
               IN  /\ r.voteCount = n
                   /\ n > 0
                   /\ IsRounded1(r.avgScore, ScoreTotal(votes, r.projectId), 10 * n)
                   /\ IsRounded1(r.avgRank, RankTotal(votes, r.projectId), n)

\* three agents' ballots with a project whose mean score and mean rank are
\* no whole tenths
C15_Witness ==
    /\ call.fn = "getVoteResults"
    /\ call.returned
    /\ \E i \in 1 .. Len(call.result) :
           LET r == call.result[i]
           IN  /\ r.voteCount = 3
               /\ r.avgScore * 3 # ScoreTotal(votes, r.projectId)
               /\ r.avgRank * 3 # 10 * RankTotal(votes, r.projectId)
    /\ \E i \in 1 .. Len(call.result) : call.result[i].voteCount = 1

\* project p receives a vote before project q receives any, in ledger order
VotedBefore(ledger, p, q) ==
    \E i \in 1 .. Len(ledger) : \E j \in 1 .. Len(ledger[i].value) :
        /\ ledger[i].value[j].projectId = p
        /\ \A i2 \in 1 .. Len(ledger) : \A j2 \in 1 .. Len(ledger[i2].value) :
               ledger[i2].value[j2].projectId = q =>
                   i < i2 \/ (i = i2 /\ j < j2)

\* C16 as stated: the list of allResults is ordered by descending voteCount
\* and, among projects with equal voteCount, by ascending mean rank.
\* Refuted: the tie is broken on the mean rounded to one decimal.
C16_OrderedByMeanRank ==
    (call.fn = "getVoteResults" /\ call.returned) =>
        \A i, j \in 1 .. Len(call.result) :
            i < j =>
                LET a == call.result[i]
                    b == call.result[j]
                IN  /\ a.voteCount >= b.voteCount
                    /\ a.voteCount = b.voteCount =>
                           RankTotal(votes, a.projectId) * b.voteCount
                               <= RankTotal(votes, b.projectId) * a.voteCount

\* C16 amended: the list is ordered by descending voteCount and, among
\* projects with equal voteCount, by ascending reported avgRank (the mean rank
\* rounded to one decimal); projects equal in both stay in the order in which
\* they received their first vote, whatever their unrounded mean ranks.
C16_OrderedByReportedRank ==
    (call.fn = "getVoteResults" /\ call.returned) =>
        \A i, j \in 1 .. Len(call.result) :
            i < j =>
                LET a == call.result[i]
                    b == call.result[j]
                IN  /\ a.voteCount >= b.voteCount
                    /\ a.voteCount = b.voteCount => a.avgRank <= b.avgRank
                    /\ (a.voteCount = b.voteCount /\ a.avgRank = b.avgRank) =>
                           VotedBefore(votes, a.projectId, b.projectId)

\* a poll in which two projects tie on voteCount and on the reported avgRank
\* and the one listed first has the larger unrounded mean rank
C16_Witness ==
    /\ call.fn = "getVoteResults"
    /\ call.returned
    /\ Len(call.result) = 2
    /\ call.result[1].voteCount = call.result[2].voteCount
    /\ call.result[1].avgRank = call.result[2].avgRank
    /\ RankTotal(votes, call.result[1].projectId)
           > RankTotal(votes, call.result[2].projectId)

\* a call of calculateAllocations that has returned
AllocationsReturned == call.fn = "calculateAllocations" /\ call.returned

\* minVotes as the call takes it: 1 when the option is not set
EffectiveMinVotes ==
    IF call.options.minVotes = <<>> THEN 1 ELSE call.options.minVotes[1]

\* the call's topN test does not hold: the option is not set, is 0 or is not
\* below the number of eligible projects
Untruncated ==
    \/ call.options.topN = <<>>
    \/ call.options.topN[1] = 0
    \/ call.options.topN[1]
          >= Cardinality({i \in 1 .. Len(call.voteResults) :
                             call.voteResults[i].voteCount >= EffectiveMinVotes})

\* C17: calculateAllocations never outputs a project whose voteCount is below
\* minVotes (default 1), whatever its weight; without topN truncation the
\* output holds exactly the projects with voteCount >= minVotes, and it is the
\* empty list when no project is eligible.
C17_MinVotesStrict ==
    AllocationsReturned =>
        LET given == {call.voteResults[i].projectId : i \in 1 .. Len(call.voteResults)}
            eligible == {call.voteResults[i].projectId :
                            i \in {i \in 1 .. Len(call.voteResults) :
                                call.voteResults[i].voteCount >= EffectiveMinVotes}}
            output == {call.result[i].projectId : i \in 1 .. Len(call.result)}
        IN  /\ \A i \in 1 .. Len(call.result) :
                   call.result[i].voteCount >= EffectiveMinVotes
            /\ output \subseteq eligible
            /\ Untruncated =>
                   /\ output = eligible
                   /\ Len(call.result) = Cardinality(eligible)
            /\ eligible = {} => call.result = <<>>

\* minVotes 2 leaves out HighScore, whose weight no listed project exceeds,
\* and keeps HighVotes
C17_Witness ==
    /\ AllocationsReturned
    /\ call.options.minVotes = <<2>>
    /\ \E i \in 1 .. Len(call.voteResults) : call.voteResults[i].projectId = "HighScore"
    /\ \E i \in 1 .. Len(call.voteResults) : call.voteResults[i].projectId = "LowBoth"
    /\ Len(call.result) = 1
    /\ call.result[1].projectId = "HighVotes"
    /\ 10 * call.result[1].allocation = call.poolAmount

\* the eligible projects of the call, in the order given
EligibleGiven ==
    SelectSeq(call.voteResults, LAMBDA r : r.voteCount >= EffectiveMinVotes)

\* every eligible project has a positive weight voteCount * avgScore / avgRank
PositiveWeights ==
    \A i \in 1 .. Len(EligibleGiven) :
        EligibleGiven[i].voteCount * EligibleGiven[i].avgScore > 0

\* the weight of a project times the common multiple of the eligible ranks
WeightOf(r) ==
    r.voteCount * r.avgScore * (RankLcm(EligibleGiven) \div r.avgRank)

TotalWeightOf == SumSeq([i \in 1 .. Len(EligibleGiven) |-> WeightOf(EligibleGiven[i])])

\* the sum of the allocations of the returned list
AllocationSum == SumSeq([i \in 1 .. Len(call.result) |-> call.result[i].allocation])

\* amount * weight / total is more than one half
ShareExceedsHalf(amount, weight, total) ==
    weight > 0 /\ amount > total \div (2 * weight)

\* the distance of v from amount * weight / total is at most one half; the
\* whole multiples of total in amount are taken out first to keep the
\* products small
WithinHalfOfShare(v, amount, weight, total) ==
    LET rest == v - (amount \div total) * weight
    IN  2 * Abs(rest * total - (amount % total) * weight) <= total

\* C18 as stated: without topN truncation and with positive weights, every
\* allocation is greater than 0, the allocations sum to poolAmount within
\* 0.01, validateAllocations(result, poolAmount, 0.01) is true and
\* validateAllocations(result, p, 0.01) is false for p further than 0.01 from
\* the sum.  Refuted: a positive share below 0.00005 is rounded to 0.
C18_PositiveAndSumsToPool ==
    (AllocationsReturned /\ Untruncated /\ PositiveWeights) =>
        /\ \A i \in 1 .. Len(call.result) : call.result[i].allocation > 0
        /\ call.result # <<>> =>
               Abs(10 * AllocationSum - call.poolAmount) <= DefaultTolerance
        /\ \A i \in 1 .. Len(call.validated) :
               LET v == call.validated[i]
               IN  /\ (call.result # <<>> /\ v.poolAmount = call.poolAmount) => v.valid
                   /\ Abs(10 * AllocationSum - v.poolAmount) > DefaultTolerance
                          => ~v.valid

\* C18 amended: without topN truncation and with positive weights, every
\* allocation is poolAmount * weight / totalWeight rounded to 4 decimals: it
\* is at least 0, greater than 0 when that share exceeds 0.00005, and
\* within 0.00005 of it; the allocations sum to poolAmount within 0.00005
\* times their number; validateAllocations(result, p, 0.01) is true when the
\* sum is closer than 0.01 to p and false when it is further than 0.01.
C18_RoundedSharesSumToPool ==
    (AllocationsReturned /\ Untruncated /\ PositiveWeights) =>
        /\ \A i \in 1 .. Len(call.result) :
               LET a == call.result[i]
               IN  /\ a.allocation >= 0
                   /\ ShareExceedsHalf(call.poolAmount, WeightOf(a),
                                       10 * TotalWeightOf) => a.allocation > 0
                   /\ WithinHalfOfShare(a.allocation, call.poolAmount, WeightOf(a),
                                        10 * TotalWeightOf)
        /\ call.result # <<>> =>
               2 * Abs(10 * AllocationSum - call.poolAmount) <= 10 * Len(call.result)
        /\ \A i \in 1 .. Len(call.validated) :
               LET v == call.validated[i]
               IN  /\ Abs(10 * AllocationSum - v.poolAmount) < DefaultTolerance
                          => v.valid
                   /\ Abs(10 * AllocationSum - v.poolAmount) > DefaultTolerance
                          => ~v.valid

\* three projects of positive weight share a pool of 0.0001 SOL: each
\* allocation is 0, and the list still validates against the pool
C18_Witness ==
    /\ AllocationsReturned
    /\ Untruncated
    /\ PositiveWeights
    /\ Len(call.result) = 3
    /\ \A i \in 1 .. 3 : call.result[i].allocation = 0 /\ call.result[i].allocationPct > 0
    /\ call.validated # <<>>
    /\ call.validated[1].poolAmount = call.poolAmount
    /\ call.validated[1].valid

\* v is amount * weight / total rounded to a whole unit, halves upwards
IsRoundedShare(v, amount, weight, total) ==
    LET rest == v - (amount \div total) * weight
        part == (amount % total) * weight
    IN  /\ 2 * total * rest <= 2 * part + total
        /\ 2 * total * rest > 2 * part - total

\* voteCount * avgScore / avgRank of a and of b compared without division
WeightLess(a, b) ==
    a.voteCount * a.avgScore * b.avgRank < b.voteCount * b.avgScore * a.avgRank

\* C19: with weight = voteCount * avgScore / avgRank, every returned entry
\* has allocation = poolAmount * weight / totalWeight rounded to 4 decimals
\* and allocationPct = 100 * weight / totalWeight rounded to 2 decimals; two
\* projects of equal weight receive equal allocations and a project of larger
\* weight never receives a smaller one.
C19_WeightedShares ==
    (AllocationsReturned /\ TotalWeightOf > 0) =>
        /\ \A i \in 1 .. Len(call.result) :
               LET a == call.result[i]
               IN  /\ ~a.isNaN
                   /\ IsRoundedShare(a.allocation, call.poolAmount, WeightOf(a),
                                     10 * TotalWeightOf)
                   /\ IsRoundedShare(a.allocationPct, 100 * 100, WeightOf(a),
                                     TotalWeightOf)
        /\ \A i, j \in 1 .. Len(call.result) :
               LET a == call.result[i]
                   b == call.result[j]
               IN  /\ (~WeightLess(a, b) /\ ~WeightLess(b, a)) =>
                          a.allocation = b.allocation
                   /\ WeightLess(a, b) => a.allocation <= b.allocation

\* the weighting test of allocator.test.ts on a pool of 9.99: HighScore and
\* HighVotes, both of weight 30, receive 4.4955 each and LowBoth 0.999
C19_Witness ==
    /\ AllocationsReturned
    /\ Len(call.result) = 3
    /\ call.poolAmount = 999000
    /\ {call.result[1].projectId, call.result[2].projectId} = {"HighScore", "HighVotes"}
    /\ call.result[1].allocation = 44955
    /\ call.result[2].allocation = 44955
    /\ call.result[3].projectId = "LowBoth"
    /\ call.result[3].allocation = 9990
    /\ call.result[3].allocationPct = 1000

\* what the same call returns when topN is not set
UntruncatedOutput ==
    calculateAllocations(call.voteResults, call.poolAmount,
                         [call.options EXCEPT !.topN = <<>>])

\* the first n entries of a list, none for n <= 0
FirstN(s, n) == [i \in 1 .. n |-> s[i]]

\* the returned list is in descending order of allocation
DescendingAllocations ==
    \A i, j \in 1 .. Len(call.result) :
        i < j => call.result[i].allocation >= call.result[j].allocation

\* C20 as stated: the entries are in descending order of allocation, and for
\* every integer topN that is set and less than the number of eligible
\* projects the output is exactly the first topN entries of the untruncated
\* output, in the same order and with the same amounts.  Refuted for topN = 0
\* and for negative topN.
C20_TopNPrefix ==
    (AllocationsReturned /\ TotalWeightOf > 0) =>
        /\ DescendingAllocations
        /\ (call.options.topN # <<>> /\ call.options.topN[1] < Len(EligibleGiven)) =>
               call.result = FirstN(UntruncatedOutput, call.options.topN[1])

\* C20 amended: the entries are in descending order of allocation; for a
\* topN from 1 to the number of eligible projects less one the output is the
\* first topN entries of the untruncated output, same order, same amounts;
\* for topN not set, 0, or at least the number of eligible projects it is the
\* untruncated output; for a negative topN it is the untruncated output
\* without its last -topN entries.
C20_TopNSlice ==
    (AllocationsReturned /\ TotalWeightOf > 0) =>
        LET n == Len(EligibleGiven)
            full == UntruncatedOutput
        IN  /\ DescendingAllocations
            /\ Len(full) = n
            /\ IF call.options.topN = <<>> THEN call.result = full
               ELSE LET topN == call.options.topN[1]
                    IN  /\ (topN >= 1 /\ topN < n) => call.result = FirstN(full, topN)
                        /\ (topN = 0 \/ topN >= n) => call.result = full
                        /\ topN < 0 => call.result = FirstN(full, n + topN)

\* topN 2 on three eligible projects: the two largest allocations are kept
\* as they are and add up to less than the pool
C20_Witness ==
    /\ AllocationsReturned
    /\ call.options.topN = <<2>>
    /\ Len(EligibleGiven) = 3
    /\ Len(call.result) = 2
    /\ call.result[1].allocation > call.result[2].allocation
    /\ call.result[2].allocation > UntruncatedOutput[3].allocation
    /\ UntruncatedOutput[3].allocation > 0
    /\ 10 * (call.result[1].allocation + call.result[2].allocation)
           < call.poolAmount

----------------------------------------------------------------------------
(* Properties of the allocation engine on degenerate inputs *)

\* C21: when the weights of the eligible projects sum to 0 the call fails
\* with DivisionUndefined instead of returning allocation entries.  Refuted:
\* the call returns one entry for each eligible project, its allocation and
\* allocationPct NaN.
C21_ZeroWeightFails ==
    (AllocationsReturned /\ EligibleGiven # <<>> /\ TotalWeightOf = 0) =>
        call.result = <<>>

\* C22 as stated: when exactly one project is eligible and its weight is
\* positive, the call returns a single entry with allocationPct = 100 and
\* allocation = poolAmount.  Refuted: the allocation keeps 4 decimals of the
\* pool, and a negative topN empties the list.
C22_SingleProjectTakesPool ==
    (AllocationsReturned /\ Len(EligibleGiven) = 1 /\ TotalWeightOf > 0) =>
        /\ Len(call.result) = 1
        /\ call.result[1].allocationPct = 100 * 100
        /\ 10 * call.result[1].allocation = call.poolAmount

\* C22 amended: when exactly one project is eligible and its weight is
\* positive, the call returns, for a topN that is not set, 0 or positive, a
\* single entry for that project with allocationPct = 100 and allocation =
\* poolAmount rounded to 4 decimals, which is poolAmount when it has no more
\* than 4 decimals; for a negative topN it returns the empty list.
C22_SingleProjectTakesRoundedPool ==
    (AllocationsReturned /\ Len(EligibleGiven) = 1 /\ TotalWeightOf > 0) =>
        IF call.options.topN # <<>> /\ call.options.topN[1] < 0
        THEN call.result = <<>>
        ELSE /\ Len(call.result) = 1
             /\ call.result[1].projectId = EligibleGiven[1].projectId
             /\ call.result[1].allocationPct = 100 * 100
             /\ 10 * call.result[1].allocation <= call.poolAmount + 5
             /\ 10 * call.result[1].allocation > call.poolAmount - 5
             /\ call.poolAmount % 10 = 0 =>
                    10 * call.result[1].allocation = call.poolAmount

\* minVotes 2 leaves HighVotes alone among three projects with a pool of
\* 1.23456 SOL: it receives 100 % and 1.2346 SOL
C22_Witness ==
    /\ AllocationsReturned
    /\ Len(call.voteResults) = 3
    /\ Len(EligibleGiven) = 1
    /\ call.poolAmount = 123456
    /\ Len(call.result) = 1
    /\ call.result[1].projectId = "HighVotes"
    /\ call.result[1].allocationPct = 100 * 100
    /\ call.result[1].allocation = 12346

----------------------------------------------------------------------------
(* Properties of the snapshots and of the session store *)

\* C23: when start, answer, complete or reset has returned, sessions.json
\* holds the session store and votes.json holds the vote ledger, the
\* completed flag and the finalScore set by the last answer included.
\* Refuted: the last answer of a session is saved before the flag and the
\* score are set.
C23_SnapshotsMatchStores ==
    /\ savedSessions = saveSessions(sessions)
    /\ savedVotes = saveVotes(votes)

\* the requests the answer route has accepted for a session
AcceptedFor(sessionId) ==
    {h \in call.handled : h.sessionId = sessionId /\ h.status = 200}

\* C24: when several answer requests for the same session are in flight at
\* once, each accepted request is scored against a different question index,
\* the cursor ends equal to the number of answers recorded, and no answer is
\* lost or recorded twice: the accepted requests and the records correspond
\* one to one.
C24_RequestsSerialized ==
    call.fn = "answerRequests" =>
        \A s \in DOMAIN sessions :
            LET session == sessions[s]
                accepted == AcceptedFor(s)
            IN  /\ \A g, h \in accepted : g.index = h.index => g = h
                /\ session.currentQuestionIndex = Len(session.answers)
                /\ Len(session.answers) = Cardinality(accepted)
                /\ \A h \in accepted :
                       /\ h.index + 1 \in 1 .. Len(session.answers)
                       /\ session.answers[h.index + 1].answer = h.answer
                       /\ session.answers[h.index + 1].questionId
                              = session.questions[h.index + 1].id
                /\ \A h \in call.handled :
                       h.status = 200 \/ (h.status = 500 /\ session.completed)

\* two requests were in flight together and the one sent second was handled
\* first: both have been accepted, for different questions, and the session
\* has completed and a seventh request has been refused
C24_Witness ==
    /\ call.fn = "answerRequests"
    /\ \E g \in call.handled, h \in call.handled :
          /\ g.sessionId = h.sessionId
          /\ g.status = 200 /\ h.status = 200
          /\ h.tag < g.tag
          /\ g.index < h.index
          /\ g.answer # h.answer
          /\ sessions[g.sessionId].completed
    /\ \E h \in call.handled : h.status = 500

----------------------------------------------------------------------------
(* Properties of the donations *)

\* C25: recordIncomingDonation records a donation only after the verifier
\* has returned transfer details for the txHash: a call whose verifier
\* answers null throws and adds nothing to the tracker, a call whose
\* verifier answers details records one donation carrying the txHash of the
\* call and the from, amount, currency and timestamp of the answer, and the
\* tracker holds no other donation.
C25_DonationsFollowVerifier ==
    call.fn = "recordIncomingDonation" =>
        LET recorded == {f \in call.settled : ~f.threw}
        IN  /\ \A f \in call.settled :
                   /\ f.verified = <<>> <=> f.threw
                   /\ f.threw => f.donation = <<>>
            /\ Len(call.donations) = Cardinality(recorded)
            /\ \A f \in recorded :
                   \E i \in 1 .. Len(call.donations) :
                       LET d == call.donations[i]
                           v == f.verified[1]
                       IN  /\ f.donation = <<d>>
                           /\ v.txHash = f.txHash
                           /\ d.txHash = f.txHash
                           /\ d.from = v.from
                           /\ d.amount = v.amount
                           /\ d.currency = v.currency
                           /\ d.timestamp = v.timestamp
            /\ \A i, j \in 1 .. Len(call.donations) :
                   call.donations[i].id = call.donations[j].id => i = j
            /\ \A i \in 1 .. Len(call.donations) :
                   LET d == call.donations[i]
                       tx == ChainTransaction(d.txHash)
                   IN  tx # <<>> /\ ~tx[1].err

\* a donation of 2.5 USDC from donor2 is recorded for a call that claimed
\* SOL from donor1, and two later calls have thrown, one for the failed
\* transfer and one for a hash the chain does not know
C25_Witness ==
    /\ call.fn = "recordIncomingDonation"
    /\ Len(call.donations) = 1
    /\ call.donations[1].txHash = "txUsdc"
    /\ call.donations[1].from = "donor2"
    /\ call.donations[1].amount = 2500000
    /\ call.donations[1].currency = "USDC"
    /\ call.donations[1].timestamp = 0
    /\ \E f \in call.settled :
          f.tag = 1 /\ ~f.threw /\ f.txHash = "txUsdc"
    /\ \E f \in call.settled : f.tag = 2 /\ f.threw /\ f.txHash = "txFailed"
    /\ \E f \in call.settled : f.tag = 3 /\ f.threw /\ f.txHash = "txMissing"

----------------------------------------------------------------------------
(* Properties of the session store *)

\* C26: no operation other than reset removes a session: under start,
\* answer and complete the set of session ids only grows, and start never
\* replaces an existing session.  Refuted: start stores the new session
\* under the id it generates without looking the id up.
C26_SessionsOnlyGrow ==
    [][ret'.op # "reset" =>
          /\ DOMAIN sessions \subseteq DOMAIN sessions'
          /\ ret'.op = "start" =>
                 \A s \in DOMAIN sessions : sessions'[s] = sessions[s]]_vars

C28_QuestionsServedInOrder ==
    /\ [](\A s \in DOMAIN sessions :
             \A i, j \in 1 .. Len(sessions[s].questions) :
                 sessions[s].questions[i].question = sessions[s].questions[j].question
                     => i = j)
    /\ [][ /\ \A agentId \in AgentIds, projects \in ProjectLists :
                 startBaseline(agentId, projects) =>
                     LET session == sessions'[ret'.sessionId]
                     IN  /\ ret'.sessionId \notin DOMAIN sessions
                         /\ session.questions[1].id = "anchor_cells"
                         /\ session.currentQuestionIndex = 0
                         /\ ret'.question = session.questions[1].question
           /\ \A sessionId \in SessionIds, answer \in AnswerTexts :
                 ( /\ AnswerRefusal(sessionId) = ""
                   /\ answerBaseline(sessionId, answer) )
                 => LET before == sessions[sessionId]
                        after == sessions'[sessionId]
                        answered == before.currentQuestionIndex + 1
                    IN  /\ after.questions = before.questions
                        /\ after.answers[answered].questionId
                               = before.questions[answered].id
                        /\ IF answered < Len(before.questions)
                           THEN /\ ret'.complete = FALSE
                                /\ ret'.question
                                       = before.questions[answered + 1].question
                                /\ ret'.question
                                       = after.questions[after.currentQuestionIndex + 1]
                                             .question
                                /\ "score" \notin DOMAIN ret'
                                /\ ~after.completed
                           ELSE /\ ret'.complete = TRUE
                                /\ "question" \notin DOMAIN ret'
                                /\ ret'.score # NoScore
                                /\ ret'.score = after.finalScore
                                /\ ret'.score = <<calculateFinalScore(after)>>
         ]_vars

\* the last answer of a two-project session has just returned complete with
\* a passing score and no question, while another session has been served
\* its fourth question
C28_Witness ==
    /\ ret.op = "answer" /\ ret.error = "" /\ ret.complete
    /\ "question" \notin DOMAIN ret
    /\ ret.score # NoScore /\ ret.score[1].passed
    /\ \E s, t \in DOMAIN sessions :
          /\ s # t
          /\ sessions[s].completed
          /\ Len(sessions[s].questions) = 7
          /\ sessions[s].finalScore = ret.score
          /\ ~sessions[t].completed
          /\ sessions[t].currentQuestionIndex = 3

----------------------------------------------------------------------------
(* Properties of the votes recorded *)

\* the ballots a ledger holds under a key
BallotsOf(ledger, agentId) ==
    {i \in 1 .. Len(ledger) : ledger[i].key = agentId}

----------------------------------------------------------------------------
(* Properties of the coercion flag *)

CoercionPhrases == {"i was told", "instructed to"}

\* 0 for a text shorter than 10 characters, 2 for one longer than 1000
LengthClass(answer) ==
    IF answer.len < 10 THEN 0 ELSE IF answer.len > 1000 THEN 2 ELSE 1

\* the keywords of a catalog question, as the scorer compares them
KeywordsOf(questionId) ==
    LET expected == FindQuestion(questionId).expectedElements
    IN  {ToLowerCase(expected[i]) : i \in 1 .. Len(expected)}

\* the session with every answer taken without its coercion phrases and
\* scored again
WithoutCoercion(session) ==
    [session EXCEPT !.answers =
        [i \in 1 .. Len(session.answers) |->
            LET a == session.answers[i]
                text == [a.answer EXCEPT !.has = @ \ CoercionPhrases]
                again == evaluateAnswer(a.questionId, text,
                                        FindQuestion(a.questionId).expectedElements)
            IN  [questionId |-> a.questionId, answer |-> text,
                 score |-> again.score, flags |-> again.flags]]]

\* C30: the ADMITS_COERCION flag changes neither a score nor a pass
\* decision: a record is flagged exactly when its text holds a coercion
\* phrase, its score is the score of every text of the same length class
\* with the same keyword matches, flagged or not, and the final score of a
\* completed session is the one its answers would have without their
\* coercion phrases.
C30_CoercionFlagInert ==
    \A s \in DOMAIN sessions :
        LET session == sessions[s]
        IN  /\ \A i \in 1 .. Len(session.answers) :
                   LET a == session.answers[i]
                       expected == FindQuestion(a.questionId).expectedElements
                   IN  /\ (\E f \in 1 .. Len(a.flags) : a.flags[f] = "ADMITS_COERCION")
                              <=> a.answer.has \cap CoercionPhrases # {}
                       /\ \A other \in EvalTexts \cup CoercionTexts :
                              ( /\ LengthClass(other) = LengthClass(a.answer)
                                /\ other.has \cap KeywordsOf(a.questionId)
                                       = a.answer.has \cap KeywordsOf(a.questionId) )
                              => evaluateAnswer(a.questionId, other, expected).score
                                     = a.score
            /\ session.completed =>
                   session.finalScore = <<calculateFinalScore(WithoutCoercion(session))>>

\* complete has just recorded the vote of a passed session whose six
\* answers all carry ADMITS_COERCION
C30_Witness ==
    /\ ret.op = "complete" /\ ret.error = "" /\ ret.passed /\ ret.votesRecorded = 1
    /\ \E s \in DOMAIN sessions :
          /\ IsPassed(sessions[s])
          /\ \A i \in 1 .. Len(sessions[s].answers) :
                sessions[s].answers[i].flags = <<"ADMITS_COERCION">>
          /\ Len(sessions[s].answers) = 6
          /\ \E v \in VotesOf(votes) :
                v.sessionId = s /\ v.baselineScore = sessions[s].finalScore[1].total

----------------------------------------------------------------------------
(* Frame of answer and complete *)

\* C31: an answer on session s leaves every other session and the whole vote
\* ledger as they were and keeps s's id, agentId, projects and question
\* sequence; a complete on a session of agent A leaves every session as it
\* was and keeps the ballot of every other agent.
C31_AnswerCompleteFrame ==
    [][ /\ \A sessionId \in SessionIds, answer \in AnswerTexts :
              answerBaseline(sessionId, answer) =>
                  /\ votes' = votes
                  /\ DOMAIN sessions' = DOMAIN sessions
                  /\ \A other \in DOMAIN sessions \ {sessionId} :
                         sessions'[other] = sessions[other]
                  /\ sessionId \in DOMAIN sessions =>
                         /\ sessions'[sessionId].id = sessions[sessionId].id
                         /\ sessions'[sessionId].agentId = sessions[sessionId].agentId
                         /\ sessions'[sessionId].projects = sessions[sessionId].projects
                         /\ sessions'[sessionId].questions
                                = sessions[sessionId].questions
        /\ \A sessionId \in SessionIds, voteRanking \in Rankings :
              completeBaseline(sessionId, voteRanking) =>
                  /\ sessions' = sessions
                  /\ sessionId \in DOMAIN sessions =>
                         \A agentId \in AgentIds \ {sessions[sessionId].agentId} :
                             GetVotes(votes', agentId) = GetVotes(votes, agentId)
                  /\ sessionId \notin DOMAIN sessions => votes' = votes
      ]_vars

\* a complete has just recorded a ballot beside the ballot of another agent,
\* in a store of two answered sessions
C31_Witness ==
    /\ ret.op = "complete" /\ ret.error = "" /\ ret.passed
    /\ Len(votes) = 2
    /\ Cardinality(DOMAIN sessions) = 2
    /\ \A sessionId \in DOMAIN sessions : Len(sessions[sessionId].answers) > 0

----------------------------------------------------------------------------
(* Progress of a session: the core API with answers that keep coming *)

\* one agent starts sessions on one project
ProgressStart ==
    /\ startBaseline("alice", <<"P1">>)
    /\ UNCHANGED <<tokenRegistry, response, call>>

\* an answer submitted to the session
ProgressAnswer(sessionId) ==
    /\ \E answer \in AnswerTexts :
           /\ WithinStyleBound(sessionId, answer)
           /\ answerBaseline(sessionId, answer)
    /\ UNCHANGED <<tokenRegistry, response, call>>

ProgressComplete ==
    /\ \E sessionId \in SessionIds : completeBaseline(sessionId, << <<"P1", 1>> >>)
    /\ UNCHANGED <<tokenRegistry, response, call>>

NextProgress ==
    \/ ProgressStart
    \/ \E sessionId \in SessionIds : ProgressAnswer(sessionId)
    \/ ProgressComplete
    \/ Reset

InProgress(sessionId) ==
    sessionId \in DOMAIN sessions /\ ~sessions[sessionId].completed

\* an answer that answerBaseline accepts for the session; it is enabled
\* exactly when the session is in progress
AcceptedAnswer(sessionId) ==
    /\ AnswerRefusal(sessionId) = ""
    /\ ProgressAnswer(sessionId)

\* the callers keep answering every session that is in progress: weak
\* fairness of AcceptedAnswer, written out with its enabling condition
SpecProgress ==
    /\ Init
    /\ [][NextProgress]_vars
    /\ \A sessionId \in SessionIds :
           \/ []<>(~InProgress(sessionId))
           \/ []<><<AcceptedAnswer(sessionId)>>_vars

Terminal(sessionId) ==
    sessionId \in DOMAIN sessions /\ sessions[sessionId].completed
        /\ sessions[sessionId].finalScore # NoScore

\* C32: a session is completed, with its final score, exactly when it holds
\* as many accepted answers as its question sequence has entries; a session
\* that is answered again and again gets there (unless the store is reset
\* first); and a step that is not an accepted answer on a session leaves
\* the session as it was while the store holds it.
C32_SessionTerminates ==
    /\ [](\A sessionId \in DOMAIN sessions :
            /\ Len(sessions[sessionId].answers) <= Len(sessions[sessionId].questions)
            /\ Terminal(sessionId) <=>
                   Len(sessions[sessionId].answers) = Len(sessions[sessionId].questions)
            /\ InProgress(sessionId) <=>
                   Len(sessions[sessionId].answers) < Len(sessions[sessionId].questions))
    /\ [][\A sessionId \in DOMAIN sessions \cap DOMAIN sessions' :
            sessions'[sessionId] # sessions[sessionId] =>
                /\ AnswerRefusal(sessionId) = ""
                /\ \E answer \in AnswerTexts : answerBaseline(sessionId, answer)
                /\ Len(sessions'[sessionId].answers)
                       = Len(sessions[sessionId].answers) + 1]_vars
    /\ \A sessionId \in SessionIds :
           InProgress(sessionId) ~> (Terminal(sessionId) \/ sessionId \notin DOMAIN sessions)

\* a session has just ended on its last answer while another one, started
\* and never answered, is still in progress
C32_Witness ==
    /\ ret.op = "answer" /\ ret.error = "" /\ ret.complete
    /\ \E done \in DOMAIN sessions, idle \in DOMAIN sessions :
           /\ Terminal(done)
           /\ Len(sessions[done].answers) = Len(sessions[done].questions)
           /\ InProgress(idle)
           /\ sessions[idle].answers = <<>>

----------------------------------------------------------------------------
(* Ballots and the projects of their session *)

\* the projects of a projects list
ProjectsOf(projects) == {projects[i] : i \in 1 .. Len(projects)}

\* C33: every vote of the ledger is for a project of the projects list of
\* the session it names, and the ballot that holds it ranks each project of
\* that list (stated for sessions started on at least one project).
C33_VotesWithinProjects ==
    \A b \in 1 .. Len(votes) : \A i \in 1 .. Len(votes[b].value) :
        LET vote == votes[b].value[i]
            ranked == {votes[b].value[j].projectId : j \in 1 .. Len(votes[b].value)}
        IN  (vote.sessionId \in DOMAIN sessions
                /\ sessions[vote.sessionId].projects # <<>>) =>
                /\ vote.projectId \in ProjectsOf(sessions[vote.sessionId].projects)
                /\ ProjectsOf(sessions[vote.sessionId].projects) \subseteq ranked

----------------------------------------------------------------------------
(* Requests and their Authorization header: the three POST routes, with    *)
(* the header of the last request kept in call                             *)

InitCallers ==
    /\ sessions = EmptyMap
    /\ votes = <<>>
    /\ savedSessions = EmptyMap
    /\ savedVotes = <<>>
    /\ tokenRegistry = EmptyMap
    /\ ret = [op |-> "none", error |-> ""]
    /\ response = [status |-> 0, body |-> [error |-> ""]]
    /\ call = [fn |-> "request", route |-> "none", authHeader |-> <<>>, sessionId |-> 0]

\* alice, holder of the token t1, starts the one session
CallerStart ==
    /\ sessions = EmptyMap
    /\ PostStart(<<"t1">>, "alice", <<"P1">>)
    /\ call' = [fn |-> "request", route |-> "start", authHeader |-> <<"t1">>,
                sessionId |-> 0]

\* anyone posts an answer: the route has no middleware and reads the body only
CallerAnswer ==
    \E authHeader \in AuthHeaders, sessionId \in SessionIds :
        /\ PostAnswer(sessionId, GoodText)
        /\ call' = [fn |-> "request", route |-> "answer", authHeader |-> authHeader,
                    sessionId |-> sessionId]

\* anyone posts a ranking
CallerComplete ==
    \E authHeader \in AuthHeaders, sessionId \in SessionIds,
       voteRanking \in { << <<"P1", 1>> >>, << <<"P1", 2>>, <<"P2", 1>> >> } :
        /\ PostComplete(sessionId, <<voteRanking>>)
        /\ call' = [fn |-> "request", route |-> "complete", authHeader |-> authHeader,
                    sessionId |-> sessionId]

NextCallers == CallerStart \/ CallerAnswer \/ CallerComplete

SpecCallers == InitCallers /\ [][NextCallers]_vars

\* the request carries the token bound to the agent of the session
HoldsCredential(authHeader, sessionId) ==
    /\ authHeader # <<>>
    /\ authHeader[1] \in DOMAIN tokenRegistry
    /\ sessionId \in DOMAIN sessions
    /\ tokenRegistry[authHeader[1]] = sessions[sessionId].agentId

\* C34: an answer request that recorded an answer, and a complete request
\* that recorded a ballot, came with the token bound to the agent of the
\* session.
C34_OnlyCredentialHolderActs ==
    /\ (call.fn = "request" /\ call.route = "answer" /\ response.status = 200)
           => HoldsCredential(call.authHeader, call.sessionId)
    /\ (call.fn = "request" /\ call.route = "complete" /\ response.status = 200
            /\ ret.passed)
           => HoldsCredential(call.authHeader, call.sessionId)

----------------------------------------------------------------------------
(* The process stopped and started again: the stores loaded from the files *)

\* baseline.ts evaluated anew: sessions = loadSessions(), votes = loadVotes()
Restart ==
    /\ sessions' = loadSessions(savedSessions)
    /\ votes' = loadVotes(savedVotes)
    /\ ret' = [op |-> "restart", error |-> ""]
    /\ UNCHANGED <<savedSessions, savedVotes, tokenRegistry, response, call>>

NextRestart ==
    \/ ProgressStart
    \/ \E sessionId \in SessionIds : ProgressAnswer(sessionId)
    \/ ProgressComplete
    \/ Restart

SpecRestart == Init /\ [][NextRestart]_vars

\* C35: across restarts a session whose sequence is exhausted is completed
\* with its final score, an answer is refused only with one of the two
\* messages of answerBaseline, and every vote of the ledger names a session
\* that is completed and passed.
C35_CompletionSurvivesRestart ==
    /\ \A sessionId \in DOMAIN sessions :
           sessions[sessionId].currentQuestionIndex
                   >= Len(sessions[sessionId].questions)
               => Terminal(sessionId)
    /\ (ret.op = "answer" /\ ret.error # "")
           => ret.error \in {"Session not found", "Session already completed"}
    /\ \A b \in 1 .. Len(votes) : \A i \in 1 .. Len(votes[b].value) :
           LET sessionId == votes[b].value[i].sessionId
           IN  sessionId \in DOMAIN sessions =>
                   /\ Terminal(sessionId)
                   /\ sessions[sessionId].finalScore[1].passed

----------------------------------------------------------------------------
(* From the ledger to the payout: sessions of two agents, rankings with    *)
(* the rank values a caller may send, and the allocation of the dashboard  *)

\* rankings of a request body: ranks 1 and 2, a rank 0, negative ranks
PayoutRankings ==
    { << <<"P1", 1>>, <<"P2", 2>> >>,
      << <<"P1", 0>> >>,
      << <<"P1", 1>>, <<"P2", -2>> >>,
      << <<"P1", 1>>, <<"P2", -1>> >> }

\* const poolAmount = 0.3
DashboardPool == 30000

\* { topN: 3 }
DashboardOptions == [minVotes |-> <<>>, topN |-> <<3>>]

\* an agent without a session starts one
PayoutStart ==
    /\ \E agentId \in AgentIds :
           /\ \A sessionId \in DOMAIN sessions : sessions[sessionId].agentId # agentId
           /\ startBaseline(agentId, <<"P1", "P2">>)
    /\ UNCHANGED <<tokenRegistry, response, call>>

PayoutAnswer ==
    /\ \E sessionId \in SessionIds : answerBaseline(sessionId, GoodText)
    /\ UNCHANGED <<tokenRegistry, response, call>>

PayoutComplete ==
    /\ \E sessionId \in SessionIds, voteRanking \in PayoutRankings :
           completeBaseline(sessionId, voteRanking)
    /\ UNCHANGED <<tokenRegistry, response, call>>

\* GET /api/dashboard: the allocations of the vote results of the ledger
CallDashboard ==
    /\ LET results == getVoteResults(votes)
       IN  call' = [fn |-> "dashboard",
                    poolAmount |-> DashboardPool,
                    results |-> results,
                    allocations |-> calculateAllocations(results, DashboardPool,
                                                         DashboardOptions)]
    /\ UNCHANGED <<sessions, votes, savedSessions, savedVotes, tokenRegistry,
                   ret, response>>

NextPayout == PayoutStart \/ PayoutAnswer \/ PayoutComplete \/ CallDashboard

SpecPayout == Init /\ [][NextPayout]_vars

\* C36: the allocations computed from a ledger that start, answer and
\* complete have built are finite, each above 0 and at most the pool, and
\* their sum exceeds the pool by at most 0.01.
C36_PayoutsWithinPool ==
    call.fn = "dashboard" =>
        /\ \A i \in 1 .. Len(call.allocations) :
               /\ ~call.allocations[i].isNaN
               /\ call.allocations[i].infinite = 0
               /\ call.allocations[i].allocation > 0
               /\ 10 * call.allocations[i].allocation <= call.poolAmount
        /\ 10 * SumSeq([i \in 1 .. Len(call.allocations) |->
                           call.allocations[i].allocation])
               - call.poolAmount <= DefaultTolerance

----------------------------------------------------------------------------
(* Ceilings and floor of the scores *)

\* C37: every recorded answer scores at least 2 points, the answer to the
\* instruction-disclosure question at most 5, and a completed session has
\* an autonomy score of at most 8.3 and a total of at most 28.3.
C37_ScoreCeilings ==
    \A sessionId \in DOMAIN sessions :
        LET session == sessions[sessionId]
        IN  /\ \A i \in 1 .. Len(session.answers) :
                   /\ session.answers[i].score >= 12 * 2
                   /\ session.answers[i].questionId = "auto_instruction"
                          => session.answers[i].score <= 12 * 5
            /\ session.finalScore # NoScore =>
                   /\ session.finalScore[1].autonomy <= 83
                   /\ session.finalScore[1].total <= 283

\* a session whose every answer names every keyword is completed with the
\* total 28.3 and the autonomy score 8.3, its instruction-disclosure answer
\* scoring 5
C37_Witness ==
    \E sessionId \in DOMAIN sessions :
        LET session == sessions[sessionId]
        IN  /\ session.completed
            /\ session.finalScore # NoScore
            /\ session.finalScore[1].total = 283
            /\ session.finalScore[1].autonomy = 83
            /\ \E i \in 1 .. Len(session.answers) :
                   /\ session.answers[i].questionId = "auto_instruction"
                   /\ session.answers[i].score = 12 * 5

----------------------------------------------------------------------------
(* Allocations of the fund: TransparentFund.allocateFunds.  The call is     *)
(* suspended at its await while the wallet service makes the transfer;      *)
(* calls in flight resume in any order.  The state is held in call.         *)

\* number of calls of allocateFunds in one behaviour
MaxAllocateCalls == 3

AllocationIds == 1 .. MaxAllocateCalls

\* the arguments of allocateFunds; amounts in tenths of a coin
AllocationRequests ==
    { [to |-> "builder1", recipientName |-> "Builder One", amount |-> 5,
       currency |-> "SOL", purpose |-> "grant", donationIds |-> <<1>>],
      [to |-> "builder2", recipientName |-> "Builder Two", amount |-> 20,
       currency |-> "USDC", purpose |-> "bounty", donationIds |-> <<>>] }

\* what the await of wallet.transferSol / transferUsdc gives: a result with
\* success and txHash, a result with success false and error, or the
\* rejection of fetch or response.json
TransferOutcomes ==
    { [rejected |-> FALSE, success |-> TRUE, txHash |-> "txA", error |-> ""],
      [rejected |-> FALSE, success |-> TRUE, txHash |-> "txB", error |-> ""],
      [rejected |-> FALSE, success |-> FALSE, txHash |-> "",
       error |-> "insufficient funds"],
      [rejected |-> TRUE, success |-> FALSE, txHash |-> "", error |-> "fetch failed"] }

\* the test of the result left out
TransferThrows_never(outcome) == FALSE

\* the await throws, or if (!result.success) throws
TransferThrows(outcome) == outcome.rejected \/ ~outcome.success

\* the argument of tracker.recordAllocation with the id recordAllocation adds
AllocationOf(request, outcome, id) ==
    [id |-> id,
     txHash |-> outcome.txHash,
     to |-> request.to,
     recipientName |-> request.recipientName,
     amount |-> request.amount,
     currency |-> request.currency,
     purpose |-> request.purpose,
     donationIds |-> request.donationIds]

\* FundTracker.save with autoSave set: the allocations of the file
SaveAllocations(allocations) == allocations

InitAllocate ==
    /\ sessions = EmptyMap
    /\ votes = <<>>
    /\ savedSessions = EmptyMap
    /\ savedVotes = <<>>
    /\ tokenRegistry = EmptyMap
    /\ ret = [op |-> "none", error |-> ""]
    /\ response = [status |-> 0, body |-> [error |-> ""]]
    /\ call = [fn |-> "allocateFunds", wallet |-> FALSE, started |-> 0,
               awaiting |-> {}, settled |-> {}, allocations |-> <<>>,
               saved |-> <<>>]

\* connectWallet: this.wallet is set
ConnectWallet ==
    /\ call.fn = "allocateFunds"
    /\ ~call.wallet
    /\ call' = [call EXCEPT !.wallet = TRUE]
    /\ UNCHANGED <<sessions, votes, savedSessions, savedVotes, tokenRegistry,
                   ret, response>>

\* allocateFunds up to its await: it throws without a wallet, and asks the
\* wallet for the transfer otherwise
CallAllocateFunds ==
    /\ call.fn = "allocateFunds"
    /\ call.started < MaxAllocateCalls
    /\ \E request \in AllocationRequests :
           IF ~call.wallet
           THEN call' = [call EXCEPT
                           !.started = @ + 1,
                           !.settled = @ \cup {[tag |-> call.started + 1,
                                                request |-> request,
                                                transferred |-> FALSE,
                                                outcome |-> <<>>,
                                                threw |-> TRUE,
                                                allocation |-> <<>>]}]
           ELSE call' = [call EXCEPT
                           !.started = @ + 1,
                           !.awaiting = @ \cup {[tag |-> call.started + 1,
                                                 request |-> request]}]
    /\ UNCHANGED <<sessions, votes, savedSessions, savedVotes, tokenRegistry,
                   ret, response>>

\* the wallet answers one of the calls and the call runs to its end: it
\* throws on a failure and records the allocation otherwise
ResumeAllocateFunds ==
    /\ call.fn = "allocateFunds"
    /\ \E pending \in call.awaiting, outcome \in TransferOutcomes :
           LET held == {call.allocations[i].id : i \in 1 .. Len(call.allocations)}
           IN  IF TransferThrows(outcome)
               THEN call' = [call EXCEPT
                               !.awaiting = @ \ {pending},
                               !.settled = @ \cup {[tag |-> pending.tag,
                                                    request |-> pending.request,
                                                    transferred |-> TRUE,
                                                    outcome |-> <<outcome>>,
                                                    threw |-> TRUE,
                                                    allocation |-> <<>>]}]
               ELSE \E id \in AllocationIds \ held :
                       LET allocation == AllocationOf(pending.request, outcome, id)
                       IN  call' = [call EXCEPT
                                      !.awaiting = @ \ {pending},
                                      !.allocations = Append(@, allocation),
                                      !.saved = SaveAllocations(
                                                    Append(call.allocations, allocation)),
                                      !.settled = @ \cup {[tag |-> pending.tag,
                                                           request |-> pending.request,
                                                           transferred |-> TRUE,
                                                           outcome |-> <<outcome>>,
                                                           threw |-> FALSE,
                                                           allocation |-> <<allocation>>]}]
    /\ UNCHANGED <<sessions, votes, savedSessions, savedVotes, tokenRegistry,
                   ret, response>>

NextAllocate == ConnectWallet \/ CallAllocateFunds \/ ResumeAllocateFunds

SpecAllocate == InitAllocate /\ [][NextAllocate]_vars

\* the allocations of the tracker, as a set
RecordedAllocations == {call.allocations[i] : i \in 1 .. Len(call.allocations)}

\* C38: the tracker holds exactly the allocations of the calls of
\* allocateFunds whose transfer reported success, each with the txHash of
\* its transfer and the arguments of its call; a call made without a wallet
\* or whose transfer failed threw and recorded nothing, and a call whose
\* transfer is still in flight has recorded nothing; a step that ends a call
\* with a throw leaves the allocations as they were.
C38_AllocationsFollowTransfers ==
    /\ [](call.fn = "allocateFunds" =>
            /\ \A s \in call.settled :
                   /\ s.threw <=> (~s.transferred \/ ~s.outcome[1].success
                                       \/ s.outcome[1].rejected)
                   /\ s.threw => s.allocation = <<>>
                   /\ ~s.threw =>
                          /\ s.allocation # <<>>
                          /\ s.allocation[1] \in RecordedAllocations
                          /\ s.allocation[1].txHash = s.outcome[1].txHash
                          /\ s.allocation[1].to = s.request.to
                          /\ s.allocation[1].amount = s.request.amount
                          /\ s.allocation[1].currency = s.request.currency
            /\ RecordedAllocations
                   = {s.allocation[1] : s \in {t \in call.settled : ~t.threw}}
            /\ Len(call.allocations) = Cardinality({t \in call.settled : ~t.threw}))
    /\ [][(call.fn = "allocateFunds"
              /\ \E s \in call'.settled \ call.settled : s.threw)
             => call'.allocations = call.allocations]_vars

\* one call threw for want of a wallet, one threw on a failed transfer with
\* another transfer in flight, and one recorded its allocation
C38_Witness ==
    /\ call.fn = "allocateFunds"
    /\ \E s \in call.settled : s.threw /\ ~s.transferred
    /\ \E s \in call.settled : s.threw /\ s.transferred /\ ~s.outcome[1].success
    /\ \E s \in call.settled : ~s.threw /\ s.allocation[1].txHash = "txA"
    /\ Len(call.allocations) = 1

----------------------------------------------------------------------------
(* The tracker on its own: recordDonation, recordAllocation and getSummary  *)
(* called in any order.  The state is held in call; amounts are in tenths   *)
(* of a coin.                                                               *)

\* number of donations and allocations recorded in one behaviour
MaxTrackerCalls == 3

TrackerIds == 1 .. MaxTrackerCalls

Currencies == {"SOL", "USDC"}

TrackerAmounts == {5, 20}

\* the sum of entry.amount over the entries of the currency
RECURSIVE TotalOf(_, _)
TotalOf(entries, currency) ==
    IF entries = <<>> THEN 0
    ELSE (IF Head(entries).currency = currency THEN Head(entries).amount ELSE 0)
         + TotalOf(Tail(entries), currency)

\* FundTracker.getSummary: the fields computed from donations and allocations
getSummary(donations, allocations, currency) ==
    [totalReceived |-> TotalOf(donations, currency),
     totalAllocated |-> TotalOf(allocations, currency),
     totalRemaining |-> TotalOf(donations, currency) - TotalOf(allocations, currency),
     donationCount |-> Len(donations),
     allocationCount |-> Len(allocations),
     currency |-> currency]

InitTracker ==
    /\ sessions = EmptyMap
    /\ votes = <<>>
    /\ savedSessions = EmptyMap
    /\ savedVotes = <<>>
    /\ tokenRegistry = EmptyMap
    /\ ret = [op |-> "none", error |-> ""]
    /\ response = [status |-> 0, body |-> [error |-> ""]]
    /\ call = [fn |-> "tracker", donations |-> <<>>, allocations |-> <<>>,
               summary |-> <<>>]

TrackerRecordDonation ==
    /\ call.fn = "tracker"
    /\ Len(call.donations) + Len(call.allocations) < MaxTrackerCalls
    /\ \E amount \in TrackerAmounts, currency \in Currencies,
          id \in TrackerIds \ {call.donations[i].id : i \in 1 .. Len(call.donations)} :
           call' = [call EXCEPT
                      !.donations = Append(@, [id |-> id, amount |-> amount,
                                               currency |-> currency])]
    /\ UNCHANGED <<sessions, votes, savedSessions, savedVotes, tokenRegistry,
                   ret, response>>

TrackerRecordAllocation ==
    /\ call.fn = "tracker"
    /\ Len(call.donations) + Len(call.allocations) < MaxTrackerCalls
    /\ \E amount \in TrackerAmounts, currency \in Currencies,
          id \in TrackerIds \ {call.allocations[i].id : i \in 1 .. Len(call.allocations)} :
           call' = [call EXCEPT
                      !.allocations = Append(@, [id |-> id, amount |-> amount,
                                                 currency |-> currency])]
    /\ UNCHANGED <<sessions, votes, savedSessions, savedVotes, tokenRegistry,
                   ret, response>>

CallGetSummary ==
    /\ call.fn = "tracker"
    /\ \E currency \in Currencies :
           call' = [call EXCEPT
                      !.summary = <<getSummary(call.donations, call.allocations,
                                               currency)>>]
    /\ UNCHANGED <<sessions, votes, savedSessions, savedVotes, tokenRegistry,
                   ret, response>>

NextTracker == TrackerRecordDonation \/ TrackerRecordAllocation \/ CallGetSummary

SpecTracker == InitTracker /\ [][NextTracker]_vars

\* C39: a summary reports totalRemaining = totalReceived - totalAllocated,
\* and totalRemaining is not negative.
C39_RemainingNeverNegative ==
    (call.fn = "tracker" /\ call.summary # <<>>) =>
        /\ call.summary[1].totalRemaining
               = call.summary[1].totalReceived - call.summary[1].totalAllocated
        /\ call.summary[1].totalRemaining >= 0
====
